---- MODULE Spec2Model ----
(***************************************************************************)
(* Model of the WinDbg MCP extension's named-pipe server                   *)
(* (extension/src/ipc/mcp_server.cpp), its command dispatch and the        *)
(* timeout executor behind the command handlers                            *)
(* (extension/src/command/*.cpp).                                          *)
(*                                                                         *)
(* JSON objects are records; an absent key is an absent record field.      *)
(* A byte stream is a sequence of tokens: NL is the '\n' delimiter, a      *)
(* "json" token is the text of one JSON object, a "junk" token is text     *)
(* that json::parse rejects.                                               *)
(***************************************************************************)
EXTENDS Integers, Sequences, FiniteSets, TLC

\* ------------------------------------------------------------------ bounds
\* lines the clients write in one behaviour, all connections together
MaxReq == 2
\* length of the byte stream of the framing specification
MaxLen == 4
\* pipe instances the accept loop hands out; ClientConnection objects
Conns == {1, 2}
\* messages held by one connection's outgoing queue
MaxQueue == 1
\* bytes one ReadFile takes (4096 in the source), in bytes of the framing
\* specification
BUFFER_SIZE == 3

\* ------------------------------------------------------------- JSON values
Value(m, key, default) == IF key \in DOMAIN m THEN m[key] ELSE default

Has(m, key) == key \in DOMAIN m

\* response["id"] = id; response["command"] = command (creates or overwrites)
SetIdCommand(r, id, command) ==
    [k \in (DOMAIN r) \cup {"id", "command"} |->
        IF k = "id" THEN id ELSE IF k = "command" THEN command ELSE r[k]]

\* ------------------------------------------------------------------ bytes
NL == [t |-> "nl"]
Junk == [t |-> "junk"]
JsonText(obj) == [t |-> "json", obj |-> obj]

\* std::string::find('\n'): index of the first delimiter, 0 for npos
RECURSIVE FindNewlineFrom(_, _)
FindNewlineFrom(buf, i) ==
    IF i > Len(buf) THEN 0
    ELSE IF buf[i] = NL THEN i
    ELSE FindNewlineFrom(buf, i + 1)

FindNewline(buf) == FindNewlineFrom(buf, 1)

\* messageBuffer.substr(0, pos) with pos the delimiter's 0-based offset
FrontMessage(buf) == SubSeq(buf, 1, FindNewline(buf) - 1)

\* Faulty variant of EraseFront: erases one byte too many
EraseFrontTwo(buf) == SubSeq(buf, FindNewline(buf) + 2, Len(buf))

\* messageBuffer.erase(0, pos + 1)
EraseFront(buf) == SubSeq(buf, FindNewline(buf) + 1, Len(buf))

\* json::parse(message): succeeds on exactly one JSON text
Parses(message) == Len(message) = 1 /\ message[1].t = "json"

ParsedObject(message) == message[1].obj

\* ----------------------------------------------------------- response shapes
\* CommandUtilities::CreateSuccessResponse / CommandHandlers::CreateSuccessResponse
CreateSuccessResponse(id, command) ==
    [type |-> "response", id |-> id, status |-> "success", command |-> command]

\* CreateSuccessResponseWithMetadata: same keys, plus metadata
CreateSuccessResponseWithMetadata(id, command) ==
    [type |-> "response", id |-> id, status |-> "success", command |-> command,
     metadata |-> TRUE]

\* CreateErrorResponse: no category key
CreateErrorResponse(id, command, error) ==
    [type |-> "response", id |-> id, status |-> "error", command |-> command,
     error |-> error]

\* CreateDetailedErrorResponse: category under "error_category"
CreateDetailedErrorResponse(id, command, error, category) ==
    [type |-> "response", id |-> id, status |-> "error", command |-> command,
     error |-> error, error_category |-> category]

\* CommandHandlers::CreateEnhancedErrorResponse: category under "category"
CreateEnhancedErrorResponse(id, command, error, category) ==
    [type |-> "response", id |-> id, status |-> "error", command |-> command,
     error |-> error, category |-> category]

\* ------------------------------------------------------ error classification
\* An error text is the set of the phrases it contains.
TimedOutText == {"timed out"}
FailedText == {}

\* CommandUtilities::ClassifyError followed by GetErrorCategoryString
UtilitiesClassifyError(text, hr) ==
    IF hr = "E_INVALIDARG" THEN "CommandSyntax"
    ELSE IF hr = "E_ACCESSDENIED" THEN "PermissionDenied"
    ELSE IF hr = "E_OUTOFMEMORY" THEN "ResourceExhaustion"
    ELSE IF hr \in {"RPC_E_DISCONNECTED", "RPC_E_SERVER_DIED"} THEN "ConnectionLost"
    ELSE IF text \cap {"syntax error", "invalid command", "unknown command"} # {}
         THEN "CommandSyntax"
    ELSE IF text \cap {"access denied", "permission denied"} # {} THEN "PermissionDenied"
    ELSE IF text \cap {"out of memory", "memory allocation"} # {} THEN "ResourceExhaustion"
    ELSE IF text \cap {"connection", "disconnect", "rpc"} # {} THEN "ConnectionLost"
    ELSE IF text \cap {"timeout", "timed out"} # {} THEN "Timeout"
    ELSE IF text \cap {"process", "thread", "context"} # {} THEN "ExecutionContext"
    ELSE "Unknown"

\* CommandHandlers::ClassifyError followed by GetErrorCategoryString
LegacyClassifyError(text, hr) ==
    IF "timed out" \in text THEN "timeout"
    ELSE IF text \cap {"debug client", "control interface"} # {} THEN "api_error"
    ELSE IF text \cap {"syntax", "Usage:", "Invalid argument"} # {} THEN "command_syntax"
    ELSE IF text \cap {"not found", "cannot resolve", "no symbols"} # {}
         THEN "symbol_resolution"
    ELSE IF "extension" \in text /\ text \cap {"not loaded", "missing"} # {}
         THEN "extension_load"
    ELSE IF text \cap {"access violation", "invalid memory", "cannot access"} # {}
         THEN "memory_access"
    ELSE IF text \cap {"wrong context", "kernel mode only", "user mode only",
                       "not debugging"} # {} THEN "execution_context"
    ELSE IF hr = "E_INVALIDARG" THEN "command_syntax"
    ELSE IF hr = "E_ACCESSDENIED" THEN "memory_access"
    ELSE IF hr = "E_OUTOFMEMORY" THEN "internal_error"
    ELSE IF hr = "E_NOINTERFACE" THEN "api_error"
    ELSE IF hr = "E_ABORT" THEN "timeout"
    ELSE "unknown"

\* The handlers' "Extract HRESULT if present": errorMsg.substr(hrPos + 10, 8)
\* starts at the 'x' of "0x", std::stoul rejects it, the catch (...) keeps S_OK.
ExtractedHresult == "S_OK"

\* --------------------------------------------------------------- handlers
\* A handler is <<module, name>>: the static member function registered.
Legacy == "CommandHandlers"
Basic == "BasicCommandHandlers"
Diagnostic == "DiagnosticCommandHandlers"
Enhanced == "EnhancedCommandHandlers"

\* MCPServer::RegisterHandler: m_handlers[command] = handler
RegisterHandler(handlers, command, handler) ==
    [n \in (DOMAIN handlers) \cup {command} |->
        IF n = command THEN handler ELSE handlers[n]]

RECURSIVE RegisterEach(_, _, _)
RegisterEach(handlers, module, names) ==
    IF names = <<>> THEN handlers
    ELSE RegisterEach(RegisterHandler(handlers, Head(names), <<module, Head(names)>>),
                      module, Tail(names))

NoHandlers == [n \in {} |-> <<>>]

\* CommandHandlers::RegisterHandlers, called by DebugExtensionInitialize / mcpstart
LegacyRegisterHandlers(handlers) ==
    RegisterEach(handlers, Legacy,
        <<"check_connection", "version", "get_metadata", "lm", "dt", "dd",
          "execute_command", "for_each_module", "health_check", "connection_status",
          "capture_session_state", "performance_metrics",
          "execute_command_enhanced", "execute_command_streaming">>)

\* CommandRegistry::RegisterAllHandlers
RegisterAllHandlers(handlers) ==
    RegisterEach(
        RegisterEach(
            RegisterEach(handlers, Basic,
                <<"check_connection", "version", "get_metadata", "lm", "dt", "dd">>),
            Diagnostic, <<"health_check", "performance_metrics">>),
        Enhanced,
        <<"execute_command", "execute_command_enhanced", "execute_command_streaming",
          "for_each_module", "mcp_list_callbacks">>)

\* The handlers whose answer is the output of a native command run through
\* ExecuteWinDbgCommand. A handler that runs several native commands in a
\* row (get_metadata, for_each_module) is modelled by one run: the first that
\* throws decides its answer.
RunsNative(h) ==
    \/ h[1] \in {Legacy, Basic} /\ h[2] \in {"get_metadata", "lm", "dt", "dd"}
    \/ h[1] \in {Legacy, Enhanced}
       /\ h[2] \in {"execute_command", "execute_command_enhanced",
                    "execute_command_streaming", "for_each_module"}

\* Which executor a module's ExecuteWinDbgCommand runs
UsesLegacyExecutor(h) == h[1] = Legacy

\* The text of the debugger command inside args.command
InnerCommandText == "!analyze -v"

\* What the handler returns when ExecuteWinDbgCommand returned its output
HandlerSuccess(h, id) ==
    IF h = <<Legacy, "check_connection">>
    THEN [type |-> "response", status |-> "success", connected |-> TRUE]
    ELSE IF h = <<Legacy, "get_metadata">>
    THEN [type |-> "response", status |-> "success", connected |-> TRUE]
    ELSE IF h[1] \in {Legacy, Diagnostic}
            /\ h[2] \in {"health_check", "connection_status",
                         "capture_session_state", "performance_metrics"}
    THEN [type |-> "response", id |-> id, status |-> "success"]
    ELSE IF h[2] \in {"execute_command", "execute_command_enhanced",
                      "execute_command_streaming"}
    THEN CreateSuccessResponseWithMetadata(id, InnerCommandText)
    ELSE IF h = <<Enhanced, "for_each_module">>
    THEN CreateSuccessResponseWithMetadata(id, InnerCommandText)
    ELSE CreateSuccessResponse(id, h[2])

\* What the handler returns when ExecuteWinDbgCommand threw: outcome is
\* "timeout" (result.hasTimedOut) or "failed" (FAILED(result.hr)).
HandlerFailure(h, id, outcome) ==
    LET text == IF outcome = "timeout" THEN TimedOutText ELSE FailedText IN
    IF h[2] \in {"get_metadata", "lm", "dt", "dd"}
    THEN CreateErrorResponse(id, h[2], text)
    ELSE IF h = <<Legacy, "for_each_module">>
    THEN CreateErrorResponse(id, h[2], text)
    ELSE IF h = <<Legacy, "execute_command">>
    THEN CreateDetailedErrorResponse(id, h[2], text,
             LegacyClassifyError(text, ExtractedHresult))
    ELSE IF h = <<Legacy, "execute_command_enhanced">>
    THEN CreateEnhancedErrorResponse(id, h[2], text, LegacyClassifyError(text, "S_OK"))
    ELSE IF h = <<Legacy, "execute_command_streaming">>
    THEN CreateEnhancedErrorResponse(id, h[2], text, "internal_error")
    ELSE CreateDetailedErrorResponse(id, h[2], text,
             UtilitiesClassifyError(text, ExtractedHresult))

\* ------------------------------------------------------------------- state
VARIABLES
    m_running,        \* MCPServer::m_running
    m_handlers,       \* MCPServer::m_handlers: command name -> handler
    m_clients,        \* MCPServer::m_clients, in push_back order
    serverThread,     \* position of PipeServerThread
    stopper,          \* position of the thread inside MCPServer::Stop
    active,           \* ClientConnection::active
    pc,               \* position of each HandleClient thread
    messageBuffer,    \* HandleClient's local messageBuffer
    cur,              \* the message being processed (json object or Junk)
    response,         \* the response about to be written
    worker,           \* the execution thread of the running ExecuteWithTimeout
    timedOut,         \* the caller's wait for the running native call timed out
    threw,            \* the handler call of the message being processed threw
    zombies,          \* number of abandoned execution threads whose native call still runs
    crashed,          \* the debugger process was terminated
    peer,             \* the client's end of each pipe instance
    pipeIn,           \* client writes not yet read, one message-mode message each
    nwritten,         \* responses written to each client
    nsent,            \* lines each client wrote
    nread,            \* messages extracted from each connection's buffer
    fStream,          \* framing: the whole byte stream
    fDelivered,       \* framing: bytes delivered so far
    fBuffer,          \* framing: messageBuffer
    fMessages,        \* framing: messages extracted so far
    fOpen,            \* framing: the connection thread has not returned
    outgoingMessages, \* ClientConnection::outgoingMessages
    lastCall,         \* the latest call of Start, Stop or RegisterHandler and what it returned
    atStop,           \* the connections in m_clients when Stop was last called
    callbacks,        \* the OutputCallbacks object of each ExecuteWithTimeout call
    clientCallbacks,  \* the call's IDebugClient has output callbacks set
    result,           \* ExecuteWithTimeout's local `result`, which it returns
    promise,          \* the value set in the call's std::promise
    spawned,          \* the call has constructed its execution thread
    g_dllUnloading,   \* types.cpp's g_dllUnloading
    cleaner,          \* position of the thread running CleanupRoutine
    args,             \* the execute_command request being handled: handler, command, timeout_ms
    waits,            \* the timeoutMs of each ExecuteWithTimeout call made for it, in order
    m_clientsMutex,   \* MCPServer::m_clientsMutex: the thread that holds it
    queueMutex,       \* ClientConnection::queueMutex: the thread that holds it
    sender            \* position of the thread inside SendMessage or BroadcastMessage

serverVars == <<m_running, m_handlers, m_clients, serverThread, stopper>>
connVars == <<active, pc, messageBuffer, cur, response, nread>>
execVars == <<worker, timedOut, threw, zombies, crashed>>
clientVars == <<peer, pipeIn, nwritten, nsent>>
frameVars == <<fStream, fDelivered, fBuffer, fMessages, fOpen>>
captureVars == <<callbacks, clientCallbacks, result, promise, spawned>>
unloadVars == <<g_dllUnloading, cleaner>>
timeoutVars == <<args, waits>>
lockVars == <<m_clientsMutex, queueMutex, sender>>
apiVars == <<outgoingMessages, lastCall, atStop>>
vars == <<serverVars, connVars, execVars, clientVars, frameVars, apiVars, captureVars,
          unloadVars, timeoutVars, lockVars>>

NoMessage == [t |-> "none"]

\* No call of the server's interface made yet
NoCall == [op |-> "none"]

\* MCPServer::Start returns true on both of its paths
StartReturns(running) == TRUE

\* A call of Start, of Stop, of RegisterHandler: what the callee found and
\* what the caller got back
StartCalled(running) == [op |-> "Start", running |-> running, ret |-> StartReturns(running)]
StopCalled(running) == [op |-> "Stop", running |-> running]
RegisterCalled(registered) == [op |-> "RegisterHandler", registered |-> registered]

\* MCPServer::BroadcastMessage returns false when the server is not running,
\* and true after its loop over m_clients, however many clients it held
BroadcastReturns(running, clients) == running

\* A call of BroadcastMessage: what the callee found and what the caller
\* got back
BroadcastCalled(running, clients) ==
    [op |-> "BroadcastMessage", running |-> running, clients |-> clients,
     ret |-> BroadcastReturns(running, clients)]

\* CommandResult(out, result, timedOut). The output is the literal pieces the
\* code concatenates and the native calls whose captured text it carries.
CommandResult(text, captured, hr, hasTimedOut) ==
    [text |-> text, captured |-> captured, hr |-> hr, hasTimedOut |-> hasTimedOut]

\* No ExecuteWithTimeout call made, no value set
NoResult == [hr |-> "none"]

\* No OutputCallbacks constructed
NoCallbacks == [state |-> "none", m_refCount |-> 0, m_output |-> {}]

\* No native command has been asked for
CaptureIdle ==
    /\ callbacks = [c \in Conns |-> NoCallbacks]
    /\ clientCallbacks = [c \in Conns |-> FALSE]
    /\ result = [c \in Conns |-> NoResult]
    /\ promise = [c \in Conns |-> NoResult]
    /\ spawned = [c \in Conns |-> FALSE]

\* The extension loaded: not unloading, the process-exit callback not run
UnloadIdle ==
    /\ g_dllUnloading = FALSE
    /\ cleaner = "idle"

\* No execute_command request is being handled
NoArgs == [handler |-> "none"]

TimeoutIdle ==
    /\ args = NoArgs
    /\ waits = <<>>

\* No thread holds a mutex of the server, none is inside SendMessage or
\* BroadcastMessage
LockIdle ==
    /\ m_clientsMutex = "free"
    /\ queueMutex = [c \in Conns |-> "free"]
    /\ sender = [at |-> "idle"]

FrameIdle ==
    /\ fStream = <<>>
    /\ fDelivered = 0
    /\ fBuffer = <<>>
    /\ fMessages = <<>>
    /\ fOpen = TRUE

\* The MCPServer as constructed: nothing runs, nothing is registered or
\* connected
ServerIdle ==
    /\ m_running = FALSE
    /\ m_handlers = NoHandlers
    /\ m_clients = <<>>
    /\ serverThread = "none"
    /\ stopper = "idle"
    /\ active = [c \in Conns |-> FALSE]
    /\ pc = [c \in Conns |-> "none"]
    /\ messageBuffer = [c \in Conns |-> <<>>]
    /\ cur = [c \in Conns |-> NoMessage]
    /\ response = [c \in Conns |-> NoMessage]
    /\ nread = [c \in Conns |-> 0]
    /\ worker = [c \in Conns |-> "none"]
    /\ timedOut = [c \in Conns |-> FALSE]
    /\ threw = [c \in Conns |-> FALSE]
    /\ zombies = 0
    /\ crashed = FALSE
    /\ peer = [c \in Conns |-> "none"]
    /\ pipeIn = [c \in Conns |-> <<>>]
    /\ nwritten = [c \in Conns |-> 0]
    /\ nsent = [c \in Conns |-> 0]
    /\ outgoingMessages = [c \in Conns |-> <<>>]
    /\ lastCall = NoCall
    /\ atStop = {}
    /\ CaptureIdle
    /\ UnloadIdle
    /\ TimeoutIdle
    /\ LockIdle

Init == ServerIdle /\ FrameIdle

\* ------------------------------------------------------------ server thread
\* MCPServer::Start: returns true at once when already running, else sets
\* m_running and starts PipeServerThread
Start ==
    /\ lastCall' = StartCalled(m_running)
    /\ IF m_running THEN UNCHANGED <<m_running, serverThread>>
       ELSE m_running' = TRUE /\ serverThread' = "accepting"

\* DebugExtensionInitialize (types.cpp): make_unique<MCPServer>,
\* CommandHandlers::RegisterHandlers, Start
DebugExtensionInitialize ==
    /\ ~crashed
    /\ m_handlers = NoHandlers
    /\ m_handlers' = LegacyRegisterHandlers(m_handlers)
    /\ Start
    /\ UNCHANGED <<m_clients, stopper, connVars, execVars, clientVars, frameVars, unloadVars, timeoutVars, lockVars, captureVars,
                   outgoingMessages, atStop>>

\* g_mcpServer->Start() on the constructed server, by a caller that is not
\* inside Stop: a first start, a start of a running server, a restart
StartServer ==
    /\ ~crashed
    /\ m_handlers # NoHandlers
    /\ stopper \in {"idle", "returned"}
    /\ Start
    /\ UNCHANGED <<m_handlers, m_clients, stopper, connVars, execVars, clientVars,
                   frameVars, unloadVars, timeoutVars, lockVars, captureVars, outgoingMessages, atStop>>

\* The names and handlers of the later RegisterHandler calls
LateHandlers == {<<"version", <<Basic, "version">>>>, <<"late", <<Basic, "version">>>>}

\* server.RegisterHandler(command, handler) on the constructed server
RegisterLate ==
    /\ ~crashed
    /\ m_handlers # NoHandlers
    /\ \E h \in LateHandlers :
          /\ m_handlers' = RegisterHandler(m_handlers, h[1], h[2])
          /\ lastCall' = RegisterCalled(h[1] \in DOMAIN m_handlers)
    /\ UNCHANGED <<m_running, m_clients, serverThread, stopper, connVars, execVars,
                   clientVars, frameVars, unloadVars, timeoutVars, lockVars, captureVars, outgoingMessages, atStop>>

\* c is one of the clients of m_clients
Member(c) == \E i \in 1..Len(m_clients) : m_clients[i] = c

\* The clients CleanupDisconnectedClients joins and erases: those not active
Inactive == {i \in 1..Len(m_clients) : ~active[m_clients[i]]}

\* thread.join() returns only once the thread function has returned
CanJoinInactive == \A i \in Inactive : pc[m_clients[i]] = "done"

\* Faulty variant of EraseInactive: nothing is erased
EraseNone(list) == list

RECURSIVE EraseInactive(_)
EraseInactive(list) ==
    IF list = <<>> THEN <<>>
    ELSE IF ~active[Head(list)] THEN EraseInactive(Tail(list))
    ELSE <<Head(list)>> \o EraseInactive(Tail(list))

\* The connections whose ClientConnection is erased from list
Erased(list) == {c \in Conns : (\E i \in 1..Len(list) : list[i] = c) /\ ~active[c]}

\* ~ClientConnection: DisconnectNamedPipe + CloseHandle
ClosedByServer(list) == [c \in Conns |-> IF c \in Erased(list) THEN "gone" ELSE peer[c]]

\* ~ClientConnection destroys the queue with what it still holds
QueuesAfterErase(list) ==
    [c \in Conns |-> IF c \in Erased(list) THEN <<>> ELSE outgoingMessages[c]]

\* Unread data is discarded with the pipe instance
DiscardedByServer(list) == [c \in Conns |-> IF c \in Erased(list) THEN <<>> ELSE pipeIn[c]]

\* ConnectNamedPipe returns with a client: a ClientConnection is created, its
\* thread started, and it is pushed to m_clients (mcp_server.cpp 129-142).
Accept(c) ==
    /\ ~crashed
    /\ serverThread = "accepting"
    /\ peer[c] = "none"
    /\ \A d \in Conns : d < c => peer[d] # "none"
    /\ peer' = [peer EXCEPT ![c] = "open"]
    /\ active' = [active EXCEPT ![c] = TRUE]
    /\ pc' = [pc EXCEPT ![c] = "loop"]
    /\ m_clients' = Append(m_clients, c)
    /\ serverThread' = "cleanup"
    /\ UNCHANGED <<m_running, m_handlers, stopper, messageBuffer, cur, response, nread,
                   execVars, pipeIn, nwritten, nsent, frameVars, unloadVars, timeoutVars, lockVars, captureVars, apiVars>>

\* Faulty variant of AcceptFails: a failure ends the accept loop
AcceptFailsAndExits ==
    /\ ~crashed
    /\ serverThread = "accepting"
    /\ serverThread' = "last_cleanup"
    /\ UNCHANGED <<m_running, m_handlers, m_clients, stopper, connVars, execVars, clientVars,
                   frameVars, unloadVars, timeoutVars, lockVars, captureVars, apiVars>>

\* CreatePipeInstance returns INVALID_HANDLE_VALUE (Sleep, continue) or
\* ConnectNamedPipe fails (CloseHandle): no client is created, and the loop
\* tests m_running again (mcp_server.cpp 116-124, 148-151)
AcceptFails ==
    /\ ~crashed
    /\ serverThread = "accepting"
    /\ serverThread' = IF m_running THEN "accepting" ELSE "last_cleanup"
    /\ UNCHANGED <<m_running, m_handlers, m_clients, stopper, connVars, execVars, clientVars,
                   frameVars, unloadVars, timeoutVars, lockVars, captureVars, apiVars>>

\* CleanupDisconnectedClients after an accept, then the loop test on m_running
AcceptCleanup ==
    /\ ~crashed
    /\ serverThread = "cleanup"
    /\ CanJoinInactive
    /\ m_clients' = EraseInactive(m_clients)
    /\ peer' = ClosedByServer(m_clients)
    /\ outgoingMessages' = QueuesAfterErase(m_clients)
    /\ pipeIn' = DiscardedByServer(m_clients)
    /\ serverThread' = IF m_running THEN "accepting" ELSE "last_cleanup"
    /\ UNCHANGED <<m_running, m_handlers, stopper, connVars, execVars, nwritten, nsent,
                   frameVars, unloadVars, timeoutVars, lockVars, captureVars, lastCall, atStop>>

\* CleanupDisconnectedClients after the accept loop has ended
LastCleanup ==
    /\ ~crashed
    /\ serverThread = "last_cleanup"
    /\ CanJoinInactive
    /\ m_clients' = EraseInactive(m_clients)
    /\ peer' = ClosedByServer(m_clients)
    /\ outgoingMessages' = QueuesAfterErase(m_clients)
    /\ pipeIn' = DiscardedByServer(m_clients)
    /\ serverThread' = "exited"
    /\ UNCHANGED <<m_running, m_handlers, stopper, connVars, execVars, nwritten, nsent,
                   frameVars, unloadVars, timeoutVars, lockVars, captureVars, lastCall, atStop>>

\* MCPServer::Stop up to the join of the server thread (mcp_server.cpp 31-44)
StopBegin ==
    /\ ~crashed
    /\ stopper \in {"idle", "returned"}
    /\ m_running
    /\ lastCall' = StopCalled(TRUE)
    /\ atStop' = {c \in Conns : active[c] /\ \E i \in 1..Len(m_clients) : m_clients[i] = c}
    /\ m_running' = FALSE
    /\ active' = [c \in Conns |->
                    IF \E i \in 1..Len(m_clients) : m_clients[i] = c THEN FALSE
                    ELSE active[c]]
    /\ stopper' = "join_server"
    /\ UNCHANGED <<m_handlers, m_clients, serverThread, pc, messageBuffer, cur, response,
                   nread, execVars, clientVars, frameVars, unloadVars, timeoutVars, lockVars, captureVars, outgoingMessages>>

\* Faulty variant of StopNotRunning: Stop without its test of m_running
StopWithoutTest ==
    /\ ~crashed
    /\ stopper \in {"idle", "returned"}
    /\ ~m_running
    /\ lastCall' = StopCalled(FALSE)
    /\ active' = [c \in Conns |-> IF Member(c) THEN FALSE ELSE active[c]]
    /\ stopper' = "join_server"
    /\ UNCHANGED <<m_running, m_handlers, m_clients, serverThread, pc, messageBuffer, cur,
                   response, nread, execVars, clientVars, frameVars, unloadVars, timeoutVars, lockVars, captureVars, outgoingMessages,
                   atStop>>

\* MCPServer::Stop on a server that is not running: returns at once
\* (mcp_server.cpp 32-33); ~MCPServer after a Stop is this call
StopNotRunning ==
    /\ ~crashed
    /\ stopper \in {"idle", "returned"}
    /\ ~m_running
    /\ lastCall' = StopCalled(FALSE)
    /\ UNCHANGED <<serverVars, connVars, execVars, clientVars, frameVars, unloadVars, timeoutVars, lockVars, captureVars,
                   outgoingMessages, atStop>>

\* m_serverThread.join()
StopJoinServer ==
    /\ ~crashed
    /\ stopper = "join_server"
    /\ serverThread = "exited"
    /\ stopper' = "cleanup"
    /\ UNCHANGED <<m_running, m_handlers, m_clients, serverThread, connVars, execVars,
                   clientVars, frameVars, unloadVars, timeoutVars, lockVars, captureVars, apiVars>>

\* Stop's CleanupDisconnectedClients, after which Stop returns
StopCleanup ==
    /\ ~crashed
    /\ stopper = "cleanup"
    /\ CanJoinInactive
    /\ m_clients' = EraseInactive(m_clients)
    /\ peer' = ClosedByServer(m_clients)
    /\ outgoingMessages' = QueuesAfterErase(m_clients)
    /\ pipeIn' = DiscardedByServer(m_clients)
    /\ stopper' = "returned"
    /\ UNCHANGED <<m_running, m_handlers, serverThread, connVars, execVars, nwritten, nsent,
                   frameVars, unloadVars, timeoutVars, lockVars, captureVars, lastCall, atStop>>

\* ------------------------------------------------- the extension's commands
\* Faulty variant of mcpstart: the handlers of CommandRegistry are registered
\* on whatever server there is, then Start
mcpstartRegistering ==
    /\ ~crashed
    /\ stopper \in {"idle", "returned"}
    /\ m_handlers' = RegisterAllHandlers(m_handlers)
    /\ Start
    /\ UNCHANGED <<m_clients, stopper, connVars, execVars, clientVars, frameVars, unloadVars, timeoutVars, lockVars, captureVars,
                   outgoingMessages, atStop>>

\* !mcpstart (types.cpp): without a server, make_unique<MCPServer> and
\* CommandHandlers::RegisterHandlers; "already running" when IsRunning();
\* otherwise Start
mcpstart ==
    /\ ~crashed
    /\ stopper \in {"idle", "returned"}
    /\ IF m_handlers = NoHandlers THEN DebugExtensionInitialize
       ELSE IF m_running THEN UNCHANGED vars
       ELSE StartServer

\* !mcpstop (types.cpp): "not running" without a server or when
\* !IsRunning(); otherwise Stop, whose waits are StopJoinServer and StopCleanup
mcpstop ==
    /\ ~crashed
    /\ stopper \in {"idle", "returned"}
    /\ IF m_handlers = NoHandlers \/ ~m_running THEN UNCHANGED vars
       ELSE StopBegin

\* DebugExtensionUninitialize (types.cpp) once the server is stopped (its
\* Stop of a running server is the Stop of mcpstop): g_mcpServer.reset().
\* ~MCPServer calls Stop, which returns at once, and the members are
\* destroyed; a ClientConnection left in m_clients still owns a std::thread
\* that was never joined, whose destructor calls std::terminate.
DebugExtensionUninitialize ==
    /\ ~crashed
    /\ stopper \in {"idle", "returned"}
    /\ m_handlers # NoHandlers
    /\ ~m_running
    /\ m_handlers' = NoHandlers
    /\ m_clients' = <<>>
    /\ serverThread' = "none"
    /\ stopper' = "idle"
    /\ crashed' = (m_clients # <<>>)
    /\ lastCall' = NoCall
    /\ atStop' = {}
    /\ g_dllUnloading' = TRUE
    /\ UNCHANGED <<m_running, connVars, worker, timedOut, threw, zombies, clientVars,
                   frameVars, captureVars, outgoingMessages, cleaner, timeoutVars, lockVars>>

\* What a thread finds when it uses g_mcpServer: the server, or, when another
\* thread has reset it meanwhile, freed memory (undefined: the access goes
\* through or the process dies)
UsesServer ==
    IF m_handlers = NoHandlers THEN \E dies \in BOOLEAN : crashed' = dies
    ELSE UNCHANGED crashed

\* MCPServer::Stop as the process-exit thread runs it inside CleanupRoutine,
\* one step for each point where the engine's thread can get in between: the
\* test of m_running; m_running = false and the loop over m_clients; the
\* join of the accept thread; CleanupDisconnectedClients
CleanupStop ==
    /\ ~crashed
    /\ \/ /\ cleaner = "stop_test"
          /\ cleaner' = IF m_running THEN "stop_set" ELSE "reset"
          /\ UsesServer
          /\ UNCHANGED <<m_running, m_clients, active, clientVars, outgoingMessages>>
       \/ /\ cleaner = "stop_set"
          /\ m_running' = FALSE
          /\ active' = [c \in Conns |-> IF Member(c) THEN FALSE ELSE active[c]]
          /\ cleaner' = "join"
          /\ UsesServer
          /\ UNCHANGED <<m_clients, clientVars, outgoingMessages>>
       \/ /\ cleaner = "join"
          /\ serverThread = "exited"
          /\ cleaner' = "cleanup"
          /\ UsesServer
          /\ UNCHANGED <<m_running, m_clients, active, clientVars, outgoingMessages>>
       \/ /\ cleaner = "cleanup"
          /\ CanJoinInactive
          /\ m_clients' = EraseInactive(m_clients)
          /\ peer' = ClosedByServer(m_clients)
          /\ outgoingMessages' = QueuesAfterErase(m_clients)
          /\ pipeIn' = DiscardedByServer(m_clients)
          /\ cleaner' = "reset"
          /\ UsesServer
          /\ UNCHANGED <<m_running, active, nwritten, nsent>>
    /\ UNCHANGED <<m_handlers, serverThread, stopper, pc, messageBuffer, cur, response, nread,
                   worker, timedOut, threw, zombies, frameVars, captureVars, lastCall, atStop,
                   g_dllUnloading, timeoutVars, lockVars>>

\* CleanupRoutine (types.cpp), the callback registered for the exit of the
\* process: g_dllUnloading.exchange(true), and when it was false and there is
\* a server, Stop (CleanupStop) and then g_mcpServer.reset()
CleanupRoutine ==
    /\ ~crashed
    /\ \/ /\ cleaner = "idle"
          /\ g_dllUnloading' = TRUE
          /\ cleaner' = IF g_dllUnloading \/ m_handlers = NoHandlers THEN "done"
                        ELSE "stop_test"
          /\ UNCHANGED <<m_handlers, m_clients, serverThread, stopper, crashed, lastCall,
                         atStop>>
       \/ /\ cleaner = "reset"
          /\ cleaner' = "done"
          /\ m_handlers' = NoHandlers
          /\ m_clients' = <<>>
          /\ serverThread' = "none"
          /\ stopper' = "idle"
          /\ crashed' = (m_clients # <<>>)
          /\ lastCall' = NoCall
          /\ atStop' = {}
          /\ UNCHANGED g_dllUnloading
    /\ UNCHANGED <<m_running, connVars, worker, timedOut, threw, zombies, clientVars,
                   frameVars, captureVars, outgoingMessages, timeoutVars, lockVars>>

\* ---------------------------------------------------------------- clients
\* The id a client puts in the k-th line it writes on connection c
RequestId(c, k) == 10 * c + k

Command(id, name) == JsonText([type |-> "command", id |-> id, command |-> name])

\* Every kind of line: text that does not parse, a message that is not a
\* command, a command without a name, without an id, with an empty name, an
\* unregistered name, and one line for each registered name a client uses.
AllLines(c, k) ==
    LET id == RequestId(c, k) IN
    { Junk,
      JsonText([type |-> "event", id |-> id]),
      JsonText([type |-> "command", id |-> id]),
      JsonText([type |-> "command", command |-> "version"]),
      Command(id, ""), Command(id, "bogus"), Command(id, "version"),
      Command(id, "check_connection"), Command(id, "health_check") }
    \cup { Command(id, name) : name \in
             {"get_metadata", "lm", "dt", "dd", "execute_command", "for_each_module",
              "execute_command_enhanced", "execute_command_streaming"} }

\* The lines the clients of the two-connection specification write
Lines(c, k) ==
    LET id == RequestId(c, k) IN
    { Junk, Command(id, "bogus"), Command(id, "version"), Command(id, "lm") }

TotalSent == nsent[1] + nsent[2]

\* The client writes one newline-terminated line in one WriteFile
ClientSend(c) ==
    /\ ~crashed
    /\ peer[c] = "open"
    /\ TotalSent < MaxReq
    /\ \E line \in Lines(c, nsent[c] + 1) :
          pipeIn' = [pipeIn EXCEPT ![c] = Append(@, <<line, NL>>)]
    /\ nsent' = [nsent EXCEPT ![c] = @ + 1]
    /\ UNCHANGED <<serverVars, connVars, execVars, peer, nwritten, frameVars, unloadVars, timeoutVars, lockVars, captureVars, apiVars>>

\* The client writes two lines in one WriteFile: one pipe message
ClientSendTwo(c) ==
    /\ ~crashed
    /\ peer[c] = "open"
    /\ TotalSent + 2 <= MaxReq
    /\ \E l1 \in Lines(c, nsent[c] + 1), l2 \in Lines(c, nsent[c] + 2) :
          pipeIn' = [pipeIn EXCEPT ![c] = Append(@, <<l1, NL, l2, NL>>)]
    /\ nsent' = [nsent EXCEPT ![c] = @ + 2]
    /\ UNCHANGED <<serverVars, connVars, execVars, peer, nwritten, frameVars, unloadVars, timeoutVars, lockVars, captureVars, apiVars>>

\* The client closes its end of the pipe
ClientClose(c) ==
    /\ ~crashed
    /\ peer[c] = "open"
    /\ peer' = [peer EXCEPT ![c] = "closed"]
    /\ UNCHANGED <<serverVars, connVars, execVars, pipeIn, nwritten, nsent, frameVars, unloadVars, timeoutVars, lockVars, captureVars, apiVars>>

\* ------------------------------------------------------- connection threads
\* HandleClient's catch block: the error response carries no id
InvalidMessageResponse ==
    [type |-> "error", error_code |-> "invalid_message", error_message |-> TRUE]

\* ProcessMessage, messageType != "command"
InvalidMessageTypeResponse(id) ==
    [id |-> id, type |-> "error", error_code |-> "invalid_message_type",
     error_message |-> TRUE]

\* Faulty variants of UnknownCommandResponse: no id; another connection's id;
\* the error code of a failed handler
UnknownCommandWithoutId(id) ==
    [type |-> "error", error_code |-> "invalid_command", error_message |-> TRUE]

UnknownCommandOtherId(id) ==
    [id |-> id + 10, type |-> "error", error_code |-> "invalid_command",
     error_message |-> TRUE]

UnknownCommandAsFailure(id) ==
    [id |-> id, type |-> "error", error_code |-> "command_failed",
     error_message |-> TRUE]

\* ProcessMessage, handlerIt == m_handlers.end()
UnknownCommandResponse(id) ==
    [id |-> id, type |-> "error", error_code |-> "invalid_command",
     error_message |-> TRUE]

\* Faulty variant of CommandFailedResponse: the error code of an unknown command
CommandFailedAsUnknown(id) ==
    [id |-> id, type |-> "error", error_code |-> "invalid_command",
     error_message |-> TRUE]

\* ProcessMessage, catch (const std::exception&) around the handler call
CommandFailedResponse(id) ==
    [id |-> id, type |-> "error", error_code |-> "command_failed",
     error_message |-> TRUE]

\* ProcessMessage, the handler returned: id and command are overwritten
HandlerReturned(m, raw) ==
    SetIdCommand(raw, Value(m, "id", 0), Value(m, "command", ""))

\* WriteFile on the server's end: fails once the client has closed its end
CanWrite(c) == peer[c] = "open"

\* Faulty variant of Deactivated: the failure takes every connection down
DeactivatedAll(c) == [d \in Conns |-> FALSE]

\* client->active = false, in HandleClient
Deactivated(c) == [active EXCEPT ![c] = FALSE]

\* The head of one pass of the outer loop when a message is queued: the test
\* of m_running && client->active, front/pop, WriteFile (mcp_server.cpp
\* 183-216). One message is written per pass; the pass goes on to the peek.
SendQueued(c) ==
    /\ ~crashed
    /\ pc[c] = "loop"
    /\ FindNewline(messageBuffer[c]) = 0
    /\ m_running /\ active[c]
    /\ outgoingMessages[c] # <<>>
    /\ outgoingMessages' = [outgoingMessages EXCEPT ![c] = Tail(@)]
    /\ IF CanWrite(c)
       THEN /\ pc' = [pc EXCEPT ![c] = "peek"]
            /\ UNCHANGED <<active, messageBuffer>>
       ELSE /\ active' = Deactivated(c)
            /\ pc' = [pc EXCEPT ![c] = "done"]
            /\ messageBuffer' = [messageBuffer EXCEPT ![c] = <<>>]
    /\ UNCHANGED <<serverVars, cur, response, nread, execVars, clientVars,
                   frameVars, unloadVars, timeoutVars, lockVars, captureVars, lastCall, atStop>>

\* One pass of the outer loop up to the inner while: the test of
\* m_running && client->active (with nothing queued), PeekNamedPipe, ReadFile,
\* messageBuffer.append (mcp_server.cpp 183-266); at "peek" the part of the
\* pass after a queued message was written. With nothing queued, nothing to
\* read and the client still there the pass changes nothing. The thread is at
\* the top of the outer loop exactly when messageBuffer holds no delimiter.
ReadInput(c) ==
    /\ ~crashed
    /\ pc[c] \in {"loop", "peek"}
    /\ FindNewline(messageBuffer[c]) = 0
    /\ IF pc[c] = "loop" /\ ~(m_running /\ active[c])
       THEN /\ active' = Deactivated(c)
            /\ pc' = [pc EXCEPT ![c] = "done"]
            /\ messageBuffer' = [messageBuffer EXCEPT ![c] = <<>>]
            /\ UNCHANGED pipeIn
       ELSE /\ pc[c] = "loop" => outgoingMessages[c] = <<>>
            /\ IF pipeIn[c] # <<>>
               THEN /\ messageBuffer' = [messageBuffer EXCEPT ![c] = @ \o Head(pipeIn[c])]
                    /\ pipeIn' = [pipeIn EXCEPT ![c] = Tail(@)]
                    /\ pc' = [pc EXCEPT ![c] = "loop"]
                    /\ UNCHANGED active
               ELSE IF peer[c] # "open"
               THEN /\ active' = Deactivated(c)
                    /\ pc' = [pc EXCEPT ![c] = "done"]
                    /\ messageBuffer' = [messageBuffer EXCEPT ![c] = <<>>]
                    /\ UNCHANGED pipeIn
               ELSE /\ pc[c] = "peek"
                    /\ pc' = [pc EXCEPT ![c] = "loop"]
                    /\ UNCHANGED <<active, messageBuffer, pipeIn>>
    /\ UNCHANGED <<serverVars, cur, response, nread, execVars, peer, nwritten, nsent,
                   frameVars, unloadVars, timeoutVars, lockVars, captureVars, apiVars>>

\* substr/erase, json::parse, and ProcessMessage up to the handler call
ProcessNext(c) ==
    /\ ~crashed
    /\ pc[c] = "loop"
    /\ FindNewline(messageBuffer[c]) # 0
    /\ LET message == FrontMessage(messageBuffer[c]) IN
       /\ messageBuffer' = [messageBuffer EXCEPT ![c] = EraseFront(@)]
       /\ nread' = [nread EXCEPT ![c] = @ + 1]
       /\ IF ~Parses(message)
          THEN /\ cur' = [cur EXCEPT ![c] = Junk]
               /\ response' = [response EXCEPT ![c] = InvalidMessageResponse]
               /\ pc' = [pc EXCEPT ![c] = "catch"]
               /\ UNCHANGED <<worker, timedOut, threw>>
          ELSE LET m == ParsedObject(message)
                   id == Value(m, "id", 0)
                   command == Value(m, "command", "") IN
               /\ cur' = [cur EXCEPT ![c] = m]
               /\ IF Value(m, "type", "") # "command"
                  THEN /\ response' = [response EXCEPT ![c] = InvalidMessageTypeResponse(id)]
                       /\ pc' = [pc EXCEPT ![c] = "write"]
                       /\ UNCHANGED <<worker, timedOut, threw>>
                  ELSE IF command \notin DOMAIN m_handlers
                  THEN /\ response' = [response EXCEPT ![c] = UnknownCommandResponse(id)]
                       /\ pc' = [pc EXCEPT ![c] = "write"]
                       /\ UNCHANGED <<worker, timedOut, threw>>
                  ELSE IF RunsNative(m_handlers[command])
                  THEN /\ worker' = [worker EXCEPT ![c] = "running"]
                       /\ timedOut' = [timedOut EXCEPT ![c] = FALSE]
                       /\ pc' = [pc EXCEPT ![c] = "exec_wait"]
                       /\ UNCHANGED <<response, threw>>
                  ELSE /\ \E throws \in BOOLEAN :
                          /\ threw' = [threw EXCEPT ![c] = throws]
                          /\ response' = [response EXCEPT ![c] =
                                 IF throws THEN CommandFailedResponse(id)
                                 ELSE HandlerReturned(m, HandlerSuccess(m_handlers[command], id))]
                       /\ pc' = [pc EXCEPT ![c] = "write"]
                       /\ UNCHANGED <<worker, timedOut>>
    /\ UNCHANGED <<serverVars, active, zombies, crashed, clientVars, frameVars, unloadVars, timeoutVars, lockVars, captureVars, apiVars>>

\* WriteFile of the response (mcp_server.cpp 281-295); the iteration's
\* locals go out of scope, and on failure the thread returns, which destroys
\* messageBuffer with whatever it still holds
WriteResponse(c) ==
    /\ ~crashed
    /\ pc[c] = "write"
    /\ IF CanWrite(c)
       THEN /\ nwritten' = [nwritten EXCEPT ![c] = @ + 1]
            /\ pc' = [pc EXCEPT ![c] = "loop"]
            /\ UNCHANGED <<active, messageBuffer>>
       ELSE /\ active' = Deactivated(c)
            /\ pc' = [pc EXCEPT ![c] = "done"]
            /\ messageBuffer' = [messageBuffer EXCEPT ![c] = <<>>]
            /\ UNCHANGED nwritten
    /\ cur' = [cur EXCEPT ![c] = NoMessage]
    /\ response' = [response EXCEPT ![c] = NoMessage]
    /\ timedOut' = [timedOut EXCEPT ![c] = FALSE]
    /\ threw' = [threw EXCEPT ![c] = FALSE]
    /\ UNCHANGED <<serverVars, nread, worker, zombies, crashed, peer, pipeIn,
                   nsent, frameVars, unloadVars, timeoutVars, lockVars, captureVars, apiVars>>

\* Faulty variant of WriteError: the thread gives the connection up
WriteErrorAndReturn(c) ==
    /\ ~crashed
    /\ pc[c] = "catch"
    /\ nwritten' = [nwritten EXCEPT ![c] = IF CanWrite(c) THEN @ + 1 ELSE @]
    /\ active' = [active EXCEPT ![c] = FALSE]
    /\ pc' = [pc EXCEPT ![c] = "done"]
    /\ cur' = [cur EXCEPT ![c] = NoMessage]
    /\ response' = [response EXCEPT ![c] = NoMessage]
    /\ UNCHANGED <<serverVars, messageBuffer, nread, execVars, peer, pipeIn, nsent,
                   frameVars, unloadVars, timeoutVars, lockVars, captureVars, apiVars>>

\* Faulty variant of WriteError: the error response is not written
WriteErrorSkipped(c) ==
    /\ ~crashed
    /\ pc[c] = "catch"
    /\ pc' = [pc EXCEPT ![c] = "loop"]
    /\ cur' = [cur EXCEPT ![c] = NoMessage]
    /\ response' = [response EXCEPT ![c] = NoMessage]
    /\ UNCHANGED <<serverVars, active, messageBuffer, nread, execVars, clientVars,
                   frameVars, unloadVars, timeoutVars, lockVars, captureVars, apiVars>>

\* WriteFile of the catch block's error response: its result is not looked at
WriteError(c) ==
    /\ ~crashed
    /\ pc[c] = "catch"
    /\ nwritten' = [nwritten EXCEPT ![c] = IF CanWrite(c) THEN @ + 1 ELSE @]
    /\ pc' = [pc EXCEPT ![c] = "loop"]
    /\ cur' = [cur EXCEPT ![c] = NoMessage]
    /\ response' = [response EXCEPT ![c] = NoMessage]
    /\ UNCHANGED <<serverVars, active, messageBuffer, nread, execVars, peer, pipeIn, nsent,
                   frameVars, unloadVars, timeoutVars, lockVars, captureVars, apiVars>>

\* ------------------------------------------------------- timeout executor
\* The handler serving the message connection c is processing
CurrentHandler(c) == m_handlers[Value(cur[c], "command", "")]

\* The CommandResult ExecuteWithTimeout returns. done is what the execution
\* thread delivered ("running" when it delivered nothing), expired whether
\* the first wait timed out.
\*   CommandUtilities: the timed-out result is kept, the late result dropped.
\*   CommandHandlers:  the execution thread assigns `result` itself, so a
\*                     completion after the timeout replaces the timed-out one.
ExecutorResult(h, done, expired) ==
    IF ~expired THEN done
    ELSE IF done = "running" THEN "timeout"
    ELSE IF UsesLegacyExecutor(h) THEN done
    ELSE "timeout"

\* ExecuteWinDbgCommand and the handler around it: the response for a result
HandlerResponse(h, m, outcome) ==
    HandlerReturned(m,
        IF outcome = "ok" THEN HandlerSuccess(h, Value(m, "id", 0))
        ELSE HandlerFailure(h, Value(m, "id", 0), outcome))

\* IDebugControl::Execute returns in the execution thread, which delivers its
\* result (promise.set_value / result = taskResult under mtx)
NativeReturns(c) ==
    /\ ~crashed
    /\ worker[c] = "running"
    /\ \E done \in {"ok", "failed"} : worker' = [worker EXCEPT ![c] = done]
    /\ UNCHANGED <<serverVars, connVars, timedOut, threw, zombies, crashed, clientVars, frameVars, unloadVars, timeoutVars, lockVars, captureVars, apiVars>>

\* The first wait ends with the result delivered: join, return, respond
WaitCompleted(c) ==
    /\ ~crashed
    /\ pc[c] = "exec_wait"
    /\ worker[c] \in {"ok", "failed"}
    /\ response' = [response EXCEPT ![c] =
           HandlerResponse(CurrentHandler(c), cur[c],
                           ExecutorResult(CurrentHandler(c), worker[c], FALSE))]
    /\ worker' = [worker EXCEPT ![c] = "none"]
    /\ pc' = [pc EXCEPT ![c] = "write"]
    /\ UNCHANGED <<serverVars, active, messageBuffer, cur, nread, timedOut, threw, zombies, crashed,
                   clientVars, frameVars, unloadVars, timeoutVars, lockVars, captureVars, apiVars>>

\* The first wait times out: hasTimedOut = true, SetInterrupt
WaitTimedOut(c) ==
    /\ ~crashed
    /\ pc[c] = "exec_wait"
    /\ worker[c] = "running"
    /\ timedOut' = [timedOut EXCEPT ![c] = TRUE]
    /\ pc' = [pc EXCEPT ![c] = "exec_grace"]
    /\ UNCHANGED <<serverVars, active, messageBuffer, cur, response, nread, worker, threw, zombies,
                   crashed, clientVars, frameVars, unloadVars, timeoutVars, lockVars, captureVars, apiVars>>

\* The execution thread delivered between the timeout and the return
GraceCompleted(c) ==
    /\ ~crashed
    /\ pc[c] = "exec_grace"
    /\ worker[c] \in {"ok", "failed"}
    /\ response' = [response EXCEPT ![c] =
           HandlerResponse(CurrentHandler(c), cur[c],
                           ExecutorResult(CurrentHandler(c), worker[c], TRUE))]
    /\ worker' = [worker EXCEPT ![c] = "none"]
    /\ pc' = [pc EXCEPT ![c] = "write"]
    /\ UNCHANGED <<serverVars, active, messageBuffer, cur, nread, timedOut, threw, zombies, crashed,
                   clientVars, frameVars, unloadVars, timeoutVars, lockVars, captureVars, apiVars>>

\* Nothing delivered by the end of the grace wait: the execution thread is
\* detached and ExecuteWithTimeout returns the timed-out result
GraceExpired(c) ==
    /\ ~crashed
    /\ pc[c] = "exec_grace"
    /\ worker[c] = "running"
    /\ response' = [response EXCEPT ![c] =
           HandlerResponse(CurrentHandler(c), cur[c],
                           ExecutorResult(CurrentHandler(c), "running", TRUE))]
    /\ worker' = [worker EXCEPT ![c] = "none"]
    /\ zombies' = zombies + 1
    /\ pc' = [pc EXCEPT ![c] = "write"]
    /\ UNCHANGED <<serverVars, active, messageBuffer, cur, nread, timedOut, threw, crashed,
                   clientVars, frameVars, unloadVars, timeoutVars, lockVars, captureVars, apiVars>>

\* Execute returns in a detached execution thread, which then uses what it
\* captured by reference from the frame of the ExecuteWithTimeout call that
\* has returned (&promise; [&] result, mtx, cv, callbacks). The behaviour is
\* undefined: the write lands in dead stack memory, or the process dies.
ZombieReturns ==
    /\ ~crashed
    /\ zombies > 0
    /\ zombies' = zombies - 1
    /\ \E dies \in BOOLEAN : crashed' = dies
    /\ UNCHANGED <<serverVars, connVars, worker, timedOut, threw, clientVars, frameVars, unloadVars, timeoutVars, lockVars, captureVars, apiVars>>

\* ------------------------------------------- one connection, every command
\* The server after DebugExtensionInitialize (either wiring of the handler
\* table) and the accept of connection 1
ConnInit ==
    /\ m_running = TRUE
    /\ m_handlers \in {LegacyRegisterHandlers(NoHandlers), RegisterAllHandlers(NoHandlers)}
    /\ m_clients = <<1>>
    /\ serverThread = "accepting"
    /\ stopper = "idle"
    /\ active = [c \in Conns |-> c = 1]
    /\ pc = [c \in Conns |-> IF c = 1 THEN "loop" ELSE "none"]
    /\ messageBuffer = [c \in Conns |-> <<>>]
    /\ cur = [c \in Conns |-> NoMessage]
    /\ response = [c \in Conns |-> NoMessage]
    /\ nread = [c \in Conns |-> 0]
    /\ worker = [c \in Conns |-> "none"]
    /\ timedOut = [c \in Conns |-> FALSE]
    /\ threw = [c \in Conns |-> FALSE]
    /\ zombies = 0
    /\ crashed = FALSE
    /\ peer = [c \in Conns |-> IF c = 1 THEN "open" ELSE "none"]
    /\ pipeIn = [c \in Conns |-> <<>>]
    /\ nwritten = [c \in Conns |-> 0]
    /\ nsent = [c \in Conns |-> 0]
    /\ outgoingMessages = [c \in Conns |-> <<>>]
    /\ lastCall = StartCalled(FALSE)
    /\ atStop = {}
    /\ CaptureIdle
    /\ UnloadIdle
    /\ TimeoutIdle
    /\ LockIdle
    /\ FrameIdle

\* The client of connection 1 writes one line, of any kind
ClientWrite ==
    /\ ~crashed
    /\ nsent[1] < MaxReq
    /\ \E line \in AllLines(1, nsent[1] + 1) :
          pipeIn' = [pipeIn EXCEPT ![1] = Append(@, <<line, NL>>)]
    /\ nsent' = [nsent EXCEPT ![1] = @ + 1]
    /\ UNCHANGED <<serverVars, connVars, execVars, peer, nwritten, frameVars, unloadVars, timeoutVars, lockVars, captureVars, apiVars>>

\* ... or two lines in one WriteFile
ClientWriteTwo ==
    /\ ~crashed
    /\ nsent[1] + 2 <= MaxReq
    /\ \E l1 \in AllLines(1, nsent[1] + 1), l2 \in Lines(1, nsent[1] + 2) :
          pipeIn' = [pipeIn EXCEPT ![1] = Append(@, <<l1, NL, l2, NL>>)]
    /\ nsent' = [nsent EXCEPT ![1] = @ + 2]
    /\ UNCHANGED <<serverVars, connVars, execVars, peer, nwritten, frameVars, unloadVars, timeoutVars, lockVars, captureVars, apiVars>>

\* ------------------------------------------------------- pushed messages
\* A message a caller pushes to clients
Event == [type |-> "event"]

\* MCPServer::SendMessage to the pipe of connection c, found in m_clients
SendMessage(c) ==
    /\ ~crashed
    /\ m_running
    /\ Member(c)
    /\ Len(outgoingMessages[c]) < MaxQueue
    /\ outgoingMessages' = [outgoingMessages EXCEPT ![c] = Append(@, Event)]
    /\ UNCHANGED <<serverVars, connVars, execVars, clientVars, frameVars, unloadVars, timeoutVars, lockVars, captureVars, lastCall, atStop>>

\* MCPServer::BroadcastMessage: false at once when the server is not
\* running; otherwise the message is pushed to every client of m_clients
BroadcastMessage ==
    /\ ~crashed
    /\ \A c \in Conns : Member(c) => Len(outgoingMessages[c]) < MaxQueue
    /\ outgoingMessages' = [c \in Conns |->
           IF m_running /\ Member(c) THEN Append(outgoingMessages[c], Event)
           ELSE outgoingMessages[c]]
    /\ lastCall' = BroadcastCalled(m_running, {c \in Conns : Member(c)})
    /\ UNCHANGED <<serverVars, connVars, execVars, clientVars, frameVars, unloadVars, timeoutVars, lockVars, captureVars, atStop>>

\* The server after DebugExtensionInitialize and the accept of two connections
PushInit ==
    /\ m_running = TRUE
    /\ m_handlers = LegacyRegisterHandlers(NoHandlers)
    /\ m_clients = <<1, 2>>
    /\ serverThread = "accepting"
    /\ stopper = "idle"
    /\ active = [c \in Conns |-> TRUE]
    /\ pc = [c \in Conns |-> "loop"]
    /\ messageBuffer = [c \in Conns |-> <<>>]
    /\ cur = [c \in Conns |-> NoMessage]
    /\ response = [c \in Conns |-> NoMessage]
    /\ nread = [c \in Conns |-> 0]
    /\ worker = [c \in Conns |-> "none"]
    /\ timedOut = [c \in Conns |-> FALSE]
    /\ threw = [c \in Conns |-> FALSE]
    /\ zombies = 0
    /\ crashed = FALSE
    /\ peer = [c \in Conns |-> "open"]
    /\ pipeIn = [c \in Conns |-> <<>>]
    /\ nwritten = [c \in Conns |-> 0]
    /\ nsent = [c \in Conns |-> 0]
    /\ outgoingMessages = [c \in Conns |-> <<>>]
    /\ lastCall = StartCalled(FALSE)
    /\ atStop = {}
    /\ CaptureIdle
    /\ UnloadIdle
    /\ TimeoutIdle
    /\ LockIdle
    /\ FrameIdle

\* The server object constructed and never started
LifeInit ==
    /\ ServerIdle
    /\ FrameIdle

\* ------------------------------------------ ExecuteWithTimeout, step by step
\* OutputCallbacks::OutputCallbacks: m_refCount(1), nothing captured
OutputCallbacks == [state |-> "live", m_refCount |-> 1, m_output |-> {}]

\* OutputCallbacks::AddRef
AddRef(cb) == [cb EXCEPT !.m_refCount = @ + 1]

\* OutputCallbacks::Release: delete this when the count reaches zero
Release(cb) ==
    IF cb.m_refCount - 1 = 0
    THEN [cb EXCEPT !.m_refCount = 0, !.state = "deleted"]
    ELSE [cb EXCEPT !.m_refCount = @ - 1]

\* CComPtr<OutputCallbacks> callbacks = new OutputCallbacks() /
\* callbacks = new OutputCallbacks(): the smart pointer takes its own
\* reference to the object it is given
NewCallbacks == AddRef(OutputCallbacks)

\* IDebugClient::SetOutputCallbacks(callbacks): the client holds a reference
\* while the callbacks are set; SetOutputCallbacks(NULL) gives it back
SetOutputCallbacks(cb) == AddRef(cb)
ResetOutputCallbacks(cb) == Release(cb)

\* The executor behind the handler connection c's message is dispatched to
LegacyCall(c) == UsesLegacyExecutor(CurrentHandler(c))

\* The caller of ExecuteWithTimeout has returned while its execution thread
\* still runs: the thread is detached
Detached(c) == pc[c] = "exec_returned" /\ worker[c] \in {"setup", "running"}

\* The execution thread of c uses what it captured by reference from the
\* frame of its ExecuteWithTimeout call (&promise; [&] result, mtx, cv,
\* callbacks). When the call has returned the behaviour is undefined: the
\* access lands in dead stack memory, or the process dies.
TouchesFrame(c) ==
    IF Detached(c) THEN \E dies \in BOOLEAN : crashed' = dies
    ELSE UNCHANGED crashed

\* ExecuteWithTimeout is entered.
\*   CommandHandlers:  DebugCreate and the query for IDebugControl run in the
\*     caller; a failure returns at once. Otherwise the callbacks are created
\*     and set, and the task thread is started.
\*   CommandUtilities: the execution thread is started at once; everything
\*     else happens inside it.
ExecuteWithTimeout(c) ==
    /\ ~crashed
    /\ pc[c] = "exec_call"
    /\ IF LegacyCall(c)
       THEN \E created \in BOOLEAN :
               IF created
               THEN /\ callbacks' = [callbacks EXCEPT ![c] = SetOutputCallbacks(NewCallbacks)]
                    /\ clientCallbacks' = [clientCallbacks EXCEPT ![c] = TRUE]
                    /\ result' = [result EXCEPT ![c] = CommandResult(<<>>, {}, "S_OK", FALSE)]
                    /\ worker' = [worker EXCEPT ![c] = "running"]
                    /\ spawned' = [spawned EXCEPT ![c] = TRUE]
                    /\ pc' = [pc EXCEPT ![c] = "exec_wait"]
               ELSE /\ result' = [result EXCEPT ![c] =
                           CommandResult(<<"Failed to create debug client">>, {}, "E_FAIL", FALSE)]
                    /\ pc' = [pc EXCEPT ![c] = "exec_returned"]
                    /\ UNCHANGED <<callbacks, clientCallbacks, worker, spawned>>
       ELSE /\ result' = [result EXCEPT ![c] = CommandResult(<<>>, {}, "S_OK", FALSE)]
            /\ worker' = [worker EXCEPT ![c] = "setup"]
            /\ spawned' = [spawned EXCEPT ![c] = TRUE]
            /\ pc' = [pc EXCEPT ![c] = "exec_wait"]
            /\ UNCHANGED <<callbacks, clientCallbacks>>
    /\ UNCHANGED <<serverVars, active, messageBuffer, cur, response, nread, timedOut, threw,
                   zombies, crashed, clientVars, frameVars, unloadVars, timeoutVars, lockVars, apiVars, promise>>

\* CommandUtilities' execution thread up to Execute: DebugCreate, the query
\* for IDebugControl, new OutputCallbacks, SetOutputCallbacks. A failure, or
\* an exception caught by either catch clause, is set in the promise and the
\* thread ends; the smart pointer, if it was assigned, is destroyed with the
\* thread's frame.
ExecutionThreadSetup(c) ==
    /\ ~crashed
    /\ worker[c] = "setup"
    /\ \E step \in {"DebugCreate", "IDebugControl", "std::exception", "...",
                    "SetOutputCallbacks", "Execute"} :
          IF step \in {"DebugCreate", "IDebugControl", "std::exception", "..."}
          THEN /\ promise' = [promise EXCEPT ![c] =
                      CommandResult(
                          CASE step = "DebugCreate" -> <<"Failed to create debug client">>
                            [] step = "IDebugControl" -> <<"Failed to get debug control interface">>
                            [] step = "std::exception" -> <<"Exception: ">>
                            [] step = "..." -> <<"Unknown exception">>,
                          {}, "E_FAIL", FALSE)]
               /\ worker' = [worker EXCEPT ![c] = "failed"]
               /\ TouchesFrame(c)
               /\ UNCHANGED <<callbacks, clientCallbacks>>
          ELSE IF step = "SetOutputCallbacks"
          THEN /\ callbacks' = [callbacks EXCEPT ![c] = Release(NewCallbacks)]
               /\ promise' = [promise EXCEPT ![c] =
                      CommandResult(<<"Failed to set output callbacks">>, {}, "E_FAIL", FALSE)]
               /\ worker' = [worker EXCEPT ![c] = "failed"]
               /\ TouchesFrame(c)
               /\ UNCHANGED clientCallbacks
          ELSE /\ callbacks' = [callbacks EXCEPT ![c] = SetOutputCallbacks(NewCallbacks)]
               /\ clientCallbacks' = [clientCallbacks EXCEPT ![c] = TRUE]
               /\ worker' = [worker EXCEPT ![c] = "running"]
               /\ UNCHANGED <<promise, crashed>>
    /\ UNCHANGED <<serverVars, connVars, timedOut, threw, zombies, clientVars, frameVars, unloadVars, timeoutVars, lockVars,
                   apiVars, result, spawned>>

\* The clients whose callbacks receive what the native call of c prints:
\* DEBUG_OUTCTL_ALL_CLIENTS (CommandHandlers) reaches every client that has
\* callbacks set, DEBUG_OUTCTL_THIS_CLIENT (CommandUtilities) only its own.
OutputTargets(c) ==
    IF LegacyCall(c) THEN {d \in Conns : clientCallbacks[d]}
    ELSE {d \in {c} : clientCallbacks[d]}

\* IDebugControl::Execute prints: OutputCallbacks::Output appends the text to
\* m_output of every target
Output(c) ==
    /\ ~crashed
    /\ worker[c] = "running"
    /\ \E d \in OutputTargets(c) : c \notin callbacks[d].m_output
    /\ callbacks' = [d \in Conns |->
           IF d \in OutputTargets(c)
           THEN [callbacks[d] EXCEPT !.m_output = @ \cup {c}]
           ELSE callbacks[d]]
    /\ UNCHANGED <<serverVars, connVars, execVars, clientVars, frameVars, unloadVars, timeoutVars, lockVars, apiVars,
                   clientCallbacks, result, promise, spawned>>

\* What the task of CommandHandlers stores for an Execute that returned hr
TaskResult(cb, ok) ==
    IF ok THEN CommandResult(<<>>, cb.m_output, "S_OK", FALSE)
    ELSE IF cb.m_output = {}
    THEN CommandResult(<<"Command execution failed with HRESULT">>, {}, "E_FAIL", FALSE)
    ELSE CommandResult(<<"Command execution failed with HRESULT", "Command output: ">>,
                       cb.m_output, "E_FAIL", FALSE)

\* Execute returns in the execution thread.
\*   CommandUtilities: GetOutput, SetOutputCallbacks(nullptr),
\*     promise.set_value(CommandResult(output, hr)); the thread's smart
\*     pointer is destroyed when the lambda returns.
\*   CommandHandlers:  the task reads the caller's callbacks and assigns the
\*     caller's `result` under mtx.
ExecuteReturns(c) ==
    /\ ~crashed
    /\ worker[c] = "running"
    /\ \E ok \in BOOLEAN :
          /\ worker' = [worker EXCEPT ![c] = IF ok THEN "ok" ELSE "failed"]
          /\ IF LegacyCall(c)
             THEN /\ result' = [result EXCEPT ![c] =
                         IF Detached(c) THEN @ ELSE TaskResult(callbacks[c], ok)]
                  /\ UNCHANGED <<callbacks, clientCallbacks, promise>>
             ELSE /\ promise' = [promise EXCEPT ![c] =
                         IF Detached(c) THEN @
                         ELSE CommandResult(<<>>, callbacks[c].m_output,
                                            IF ok THEN "S_OK" ELSE "E_FAIL", FALSE)]
                  /\ clientCallbacks' = [clientCallbacks EXCEPT ![c] = FALSE]
                  /\ callbacks' = [callbacks EXCEPT ![c] = Release(ResetOutputCallbacks(@))]
                  /\ UNCHANGED result
    /\ TouchesFrame(c)
    /\ UNCHANGED <<serverVars, connVars, timedOut, threw, zombies, clientVars, frameVars, unloadVars, timeoutVars, lockVars,
                   apiVars, spawned>>

\* The caller leaves ExecuteWithTimeout of CommandHandlers:
\* SetOutputCallbacks(NULL), the task handed to a detached joiner, and the
\* smart pointer destroyed with the frame
LegacyReturn(cb) == Release(ResetOutputCallbacks(cb))

\* The first wait ends with the thread's result delivered.
\*   CommandUtilities: result = future.get(); join; return.
\*   CommandHandlers:  the task has assigned `result`; return.
ExecCompleted(c) ==
    /\ ~crashed
    /\ pc[c] = "exec_wait"
    /\ worker[c] \in {"ok", "failed"}
    /\ IF LegacyCall(c)
       THEN /\ callbacks' = [callbacks EXCEPT ![c] = LegacyReturn(@)]
            /\ clientCallbacks' = [clientCallbacks EXCEPT ![c] = FALSE]
            /\ UNCHANGED result
       ELSE /\ result' = [result EXCEPT ![c] = promise[c]]
            /\ UNCHANGED <<callbacks, clientCallbacks>>
    /\ worker' = [worker EXCEPT ![c] = "none"]
    /\ pc' = [pc EXCEPT ![c] = "exec_returned"]
    /\ UNCHANGED <<serverVars, active, messageBuffer, cur, response, nread, timedOut, threw,
                   zombies, crashed, clientVars, frameVars, unloadVars, timeoutVars, lockVars, apiVars, promise, spawned>>

\* The first wait times out: the timed-out result is written, SetInterrupt
ExecTimedOut(c) ==
    /\ ~crashed
    /\ pc[c] = "exec_wait"
    /\ worker[c] \in {"setup", "running"}
    /\ result' = [result EXCEPT ![c] =
           IF LegacyCall(c)
           THEN [@ EXCEPT !.hasTimedOut = TRUE,
                          !.text = <<"Command execution timed out after">>,
                          !.captured = {}]
           ELSE CommandResult(<<"Command timed out">>, {}, "E_ABORT", TRUE)]
    /\ timedOut' = [timedOut EXCEPT ![c] = TRUE]
    /\ pc' = [pc EXCEPT ![c] = "exec_grace"]
    /\ UNCHANGED <<serverVars, active, messageBuffer, cur, response, nread, worker, threw,
                   zombies, crashed, clientVars, frameVars, unloadVars, timeoutVars, lockVars, apiVars, callbacks,
                   clientCallbacks, promise, spawned>>

\* The 500 ms of the second wait run out.
\*   CommandUtilities: future.wait_for(500 ms) returns before that only when
\*     the future is ready.
\*   CommandHandlers:  cv.wait_for(lock, 500 ms, [&commandRunning]{ return
\*     !commandRunning; }) finds its predicate true, commandRunning having
\*     been set false at the timeout, and returns without waiting: the
\*     period never runs.
GraceElapsed(c) ==
    /\ ~crashed
    /\ pc[c] = "exec_grace"
    /\ ~LegacyCall(c)
    /\ pc' = [pc EXCEPT ![c] = "exec_grace_over"]
    /\ UNCHANGED <<serverVars, active, messageBuffer, cur, response, nread, execVars,
                   clientVars, frameVars, unloadVars, timeoutVars, lockVars, apiVars, captureVars>>

\* Faulty variant of ExecInterrupted: the thread that delivered in the second
\* wait is left alone instead of joined
ExecInterruptedUnjoined(c) ==
    /\ ~crashed
    /\ pc[c] \in {"exec_grace", "exec_grace_over"}
    /\ worker[c] \in {"ok", "failed"}
    /\ pc' = [pc EXCEPT ![c] = "exec_returned"]
    /\ UNCHANGED <<serverVars, active, messageBuffer, cur, response, nread, execVars,
                   clientVars, frameVars, unloadVars, timeoutVars, lockVars, apiVars, captureVars>>

\* The thread delivered between the timeout and the end of the second wait.
\*   CommandUtilities: interruptedResult = future.get() is not used;
\*     result.output += " (interrupted)"; join; return.
\*   CommandHandlers:  the task has replaced `result`; return.
ExecInterrupted(c) ==
    /\ ~crashed
    /\ pc[c] \in {"exec_grace", "exec_grace_over"}
    /\ worker[c] \in {"ok", "failed"}
    /\ IF LegacyCall(c)
       THEN /\ callbacks' = [callbacks EXCEPT ![c] = LegacyReturn(@)]
            /\ clientCallbacks' = [clientCallbacks EXCEPT ![c] = FALSE]
            /\ UNCHANGED result
       ELSE /\ result' = [result EXCEPT ![c] =
                   [@ EXCEPT !.text = Append(@, " (interrupted)")]]
            /\ UNCHANGED <<callbacks, clientCallbacks>>
    /\ worker' = [worker EXCEPT ![c] = "none"]
    /\ pc' = [pc EXCEPT ![c] = "exec_returned"]
    /\ UNCHANGED <<serverVars, active, messageBuffer, cur, response, nread, timedOut, threw,
                   zombies, crashed, clientVars, frameVars, unloadVars, timeoutVars, lockVars, apiVars, promise, spawned>>

\* Nothing delivered when the second wait returns: the thread is left
\* running and the timed-out result returned
ExecDetached(c) ==
    /\ ~crashed
    /\ pc[c] = (IF LegacyCall(c) THEN "exec_grace" ELSE "exec_grace_over")
    /\ worker[c] \in {"setup", "running"}
    /\ IF LegacyCall(c)
       THEN /\ callbacks' = [callbacks EXCEPT ![c] = LegacyReturn(@)]
            /\ clientCallbacks' = [clientCallbacks EXCEPT ![c] = FALSE]
       ELSE UNCHANGED <<callbacks, clientCallbacks>>
    /\ pc' = [pc EXCEPT ![c] = "exec_returned"]
    /\ UNCHANGED <<serverVars, active, messageBuffer, cur, response, nread, execVars,
                   clientVars, frameVars, unloadVars, timeoutVars, lockVars, apiVars, result, promise, spawned>>

\* The server after the accept of two connections (either wiring of the
\* handler table), each connection thread inside the handler of a command
\* that runs a native command, about to call ExecuteWithTimeout
ExecInit ==
    /\ m_running = TRUE
    /\ m_handlers \in {LegacyRegisterHandlers(NoHandlers), RegisterAllHandlers(NoHandlers)}
    /\ m_clients = <<1, 2>>
    /\ serverThread = "accepting"
    /\ stopper = "idle"
    /\ active = [c \in Conns |-> TRUE]
    /\ pc = [c \in Conns |-> "exec_call"]
    /\ messageBuffer = [c \in Conns |-> <<>>]
    /\ \E name \in {"lm", "execute_command"} :
          cur = [c \in Conns |-> ParsedObject(<<Command(RequestId(c, 1), name)>>)]
    /\ response = [c \in Conns |-> NoMessage]
    /\ nread = [c \in Conns |-> 1]
    /\ worker = [c \in Conns |-> "none"]
    /\ timedOut = [c \in Conns |-> FALSE]
    /\ threw = [c \in Conns |-> FALSE]
    /\ zombies = 0
    /\ crashed = FALSE
    /\ peer = [c \in Conns |-> "open"]
    /\ pipeIn = [c \in Conns |-> <<>>]
    /\ nwritten = [c \in Conns |-> 0]
    /\ nsent = [c \in Conns |-> 1]
    /\ outgoingMessages = [c \in Conns |-> <<>>]
    /\ lastCall = StartCalled(FALSE)
    /\ atStop = {}
    /\ CaptureIdle
    /\ UnloadIdle
    /\ TimeoutIdle
    /\ LockIdle
    /\ FrameIdle

\* ---------------------------------------------------------- specification
ConnStep(c) ==
    \/ ReadInput(c)
    \/ ProcessNext(c)
    \/ WriteResponse(c)
    \/ WriteError(c)
    \/ WaitCompleted(c)
    \/ WaitTimedOut(c)
    \/ GraceCompleted(c)
    \/ GraceExpired(c)

Next ==
    \/ DebugExtensionInitialize
    \/ \E c \in Conns : Accept(c)
    \/ AcceptFails
    \/ AcceptCleanup
    \/ LastCleanup
    \/ StopBegin
    \/ StopJoinServer
    \/ StopCleanup
    \/ \E c \in Conns : ClientSend(c)
    \/ \E c \in Conns : ClientSendTwo(c)
    \/ \E c \in Conns : ClientClose(c)
    \/ \E c \in Conns : ConnStep(c)
    \/ \E c \in Conns : NativeReturns(c)
    \/ ZombieReturns

Spec == Init /\ [][Next]_vars

ConnNext ==
    \/ ClientWrite
    \/ ClientWriteTwo
    \/ ConnStep(1)
    \/ NativeReturns(1)
    \/ ZombieReturns

ConnSpec == ConnInit /\ [][ConnNext]_vars

\* The connection thread is scheduled; a native command need never return
ConnLive == ConnInit /\ [][ConnNext]_vars /\ WF_vars(ConnStep(1))

\* Two connections served while callers push messages to them
PushNext ==
    \/ \E c \in Conns : ClientSend(c)
    \/ \E c \in Conns : ClientClose(c)
    \/ \E c \in Conns : SendMessage(c)
    \/ \E c \in Conns : SendQueued(c)
    \/ \E c \in Conns : ConnStep(c)
    \/ \E c \in Conns : NativeReturns(c)
    \/ ZombieReturns

PushSpec == PushInit /\ [][PushNext]_vars

\* The server's life: started, stopped, restarted, handlers registered,
\* messages broadcast, clients that connect and disconnect without writing
LifeNext ==
    \/ DebugExtensionInitialize
    \/ StartServer
    \/ RegisterLate
    \/ StopBegin
    \/ StopJoinServer
    \/ StopCleanup
    \/ StopNotRunning
    \/ \E c \in Conns : Accept(c)
    \/ AcceptFails
    \/ AcceptCleanup
    \/ LastCleanup
    \/ \E c \in Conns : ClientClose(c)
    \/ \E c \in Conns : ReadInput(c)
    \/ BroadcastMessage
    \/ \E c \in Conns : SendQueued(c)

LifeSpec == LifeInit /\ [][LifeNext]_vars

\* Every thread of the server is scheduled; no client need ever connect
LifeLive ==
    /\ LifeInit
    /\ [][LifeNext]_vars
    /\ WF_vars(AcceptCleanup) /\ WF_vars(LastCleanup)
    /\ WF_vars(StopJoinServer) /\ WF_vars(StopCleanup)
    /\ \A c \in Conns : WF_vars(ReadInput(c)) /\ WF_vars(SendQueued(c))

\* The extension loaded into the debugger: its entry points called in any
\* order, clients that connect and disconnect without writing
ExtNext ==
    \/ DebugExtensionInitialize
    \/ mcpstart
    \/ mcpstop
    \/ StopJoinServer
    \/ StopCleanup
    \/ DebugExtensionUninitialize
    \/ \E c \in Conns : Accept(c)
    \/ AcceptFails
    \/ AcceptCleanup
    \/ LastCleanup
    \/ \E c \in Conns : ClientClose(c)
    \/ \E c \in Conns : ReadInput(c)

ExtSpec == LifeInit /\ [][ExtNext]_vars

\* The extension while the process exits: the entry points on the engine's
\* thread, CleanupRoutine on the thread of the process-exit wait
ShutNext ==
    \/ ExtNext
    \/ CleanupRoutine
    \/ CleanupStop

ShutSpec == LifeInit /\ [][ShutNext]_vars

\* ----------------------------------------------------------------- framing
\* The inner while on its own: every message the buffer yields, and what the
\* buffer keeps (mcp_server.cpp 270-272)
RECURSIVE ExtractAll(_)
ExtractAll(buf) ==
    IF FindNewline(buf) = 0 THEN <<>>
    ELSE <<FrontMessage(buf)>> \o ExtractAll(EraseFront(buf))

RECURSIVE Remainder(_)
Remainder(buf) ==
    IF FindNewline(buf) = 0 THEN buf ELSE Remainder(EraseFront(buf))

\* The bytes of the framing specification: the delimiter and two others
Bytes == {NL, [t |-> "a"], [t |-> "b"]}

\* Any byte stream of at most MaxLen bytes is about to arrive
FrameInit ==
    /\ ServerIdle
    /\ fStream \in UNION {[1..n -> Bytes] : n \in 0..MaxLen}
    /\ fDelivered = 0
    /\ fBuffer = <<>>
    /\ fMessages = <<>>
    /\ fOpen = TRUE

\* One ReadFile on the message-mode pipe, whose next message is the next n
\* bytes of the stream (one WriteFile of the client). A message of at most
\* BUFFER_SIZE bytes is returned whole: messageBuffer.append, and the inner
\* while run to its end. A longer one fills the buffer and ReadFile returns
\* FALSE with ERROR_MORE_DATA: client->active = false; return, before the
\* append (mcp_server.cpp 253-263).
FrameRead ==
    /\ fOpen
    /\ \E n \in 1..(Len(fStream) - fDelivered) :
          IF n <= BUFFER_SIZE
          THEN LET buf == fBuffer \o SubSeq(fStream, fDelivered + 1, fDelivered + n) IN
               /\ fDelivered' = fDelivered + n
               /\ fMessages' = fMessages \o ExtractAll(buf)
               /\ fBuffer' = Remainder(buf)
               /\ UNCHANGED fOpen
          ELSE /\ fOpen' = FALSE
               /\ UNCHANGED <<fDelivered, fMessages, fBuffer>>
    /\ UNCHANGED <<fStream, serverVars, connVars, execVars, clientVars, apiVars, captureVars, unloadVars, timeoutVars, lockVars>>

FrameSpec == FrameInit /\ [][FrameRead]_vars

\* Two connection threads, each running one native command through
\* ExecuteWithTimeout
ExecNext ==
    \/ \E c \in Conns : ExecuteWithTimeout(c)
    \/ \E c \in Conns : ExecutionThreadSetup(c)
    \/ \E c \in Conns : Output(c)
    \/ \E c \in Conns : ExecuteReturns(c)
    \/ \E c \in Conns : ExecCompleted(c)
    \/ \E c \in Conns : ExecTimedOut(c)
    \/ \E c \in Conns : GraceElapsed(c)
    \/ \E c \in Conns : ExecInterrupted(c)
    \/ \E c \in Conns : ExecDetached(c)

ExecSpec == ExecInit /\ [][ExecNext]_vars

\* ------------------------------------------- the timeout of execute_command
\* Times are counted in units of 4 ms: every timeout in the code is a
\* multiple of 4 ms, and the 2^32 values of `unsigned int timeout`, in ms,
\* are 2^30 units.
Ms(n) == n \div 4

\* The range of unsigned int, in units of 4 ms
UIntRange == 2^30

\* std::string::find: the positions, counted from 0, where p occurs in s.
\* s.find(p) == 0 is 0 \in Find(s, p); s.find(p) != npos is Find(s, p) # {}
Find(s, p) == {i \in 0..(Len(s) - Len(p)) : SubSeq(s, i + 1, i + Len(p)) = p}

\* CommandUtilities::CategorizeCommand (CommandHandlers has the same): the
\* command in lower case is tested for the prefixes of each category in turn
CategorizeCommand(command) ==
    LET tolower(ch) == IF ch = "L" THEN "l" ELSE IF ch = "M" THEN "m" ELSE ch
        lowerCommand == [i \in 1..Len(command) |-> tolower(command[i])]
        Begins(prefixes) == \E p \in prefixes : 0 \in Find(lowerCommand, p)
    IN  IF Begins({<<"v", "e", "r", "s", "i", "o", "n">>,
               <<"r">>,
               <<"k">>,
               <<"u">>,
               <<"d", "b">>,
               <<"d", "d">>,
               <<"d", "w">>,
               <<"d", "q">>})
        THEN "Quick"
        ELSE IF Begins({<<"!", "a", "n", "a", "l", "y", "z", "e">>,
               <<"!", "p", "o", "o", "l">>,
               <<"!", "h", "e", "a", "p">>,
               <<"!", "h", "a", "n", "d", "l", "e">>})
        THEN "Analysis"
        ELSE IF Begins({<<"!", "f", "o", "r", "_", "e", "a", "c", "h">>,
               <<"l", "m">>,
               <<"!", "p", "r", "o", "c", "e", "s", "s", " ", "0", " ", "0">>})
        THEN "Bulk"
        ELSE IF Begins({<<"!", "p", "r", "o", "c", "e", "s", "s">>,
               <<"!", "t", "h", "r", "e", "a", "d">>,
               <<"!", "d", "l", "l", "s">>,
               <<"!", "a", "d", "d", "r", "e", "s", "s">>})
        THEN "Slow"
        ELSE "Normal"

\* CommandUtilities::GetTimeoutForCategory
GetTimeoutForCategory(category) ==
    CASE category = "Quick" -> Ms(5000)
      [] category = "Normal" -> Ms(15000)
      [] category = "Slow" -> Ms(30000)
      [] category = "Analysis" -> Ms(60000)
      [] category = "Bulk" -> Ms(300000)
      [] OTHER -> Ms(15000)

\* The timeout ExecuteCommandHandler passes on.
\*   unsigned int timeout = args.value("timeout_ms", 30000u): the number the
\*     client sent, converted to unsigned int, or the default;
\*   if (timeout < suggested_timeout) timeout = suggested_timeout.
SuggestedTimeout(a) ==
    LET timeout == Value(a, "timeout_ms", Ms(30000)) % UIntRange
        suggested_timeout == GetTimeoutForCategory(CategorizeCommand(a.command))
    IN  IF timeout < suggested_timeout THEN suggested_timeout ELSE timeout

\* The requests clients make of either handler: the command is empty, k, LM,
\* dt, !analyze, !process 0 0, !process 1 or !address -f:x, and timeout_ms is
\* left out or is -8, 0, 1000, 20000, 30000 or 400000 ms, or 2^32 + 1000 ms
Requests ==
    LET Commands ==
            {<<>>,
             <<"k">>,
             <<"L", "M">>,
             <<"d", "t">>,
             <<"!", "a", "n", "a", "l", "y", "z", "e">>,
             <<"!", "p", "r", "o", "c", "e", "s", "s", " ", "0", " ", "0">>,
             <<"!", "p", "r", "o", "c", "e", "s", "s", " ", "1">>,
             <<"!", "a", "d", "d", "r", "e", "s", "s", " ", "-", "f", ":", "x">>}
        sent == {Ms(-8), 0, Ms(1000), Ms(20000), Ms(30000), Ms(400000), UIntRange + Ms(1000)}
    IN  {[handler |-> h, command |-> command] :
             h \in {Legacy, Enhanced}, command \in Commands}
        \cup {[handler |-> h, command |-> command, timeout_ms |-> n] :
             h \in {Legacy, Enhanced}, command \in Commands, n \in sent}

\* ExecuteCommandHandler of CommandHandlers or of EnhancedCommandHandlers up
\* to its first ExecuteWinDbgCommand: an empty command is answered with an
\* error; otherwise the command, whether it goes through HandleProcessCommand,
\* HandleDllsCommand, HandleAddressCommand or directly, is run by
\* ExecuteWithTimeout(command, timeout)
ExecuteCommandHandler ==
    /\ args = NoArgs
    /\ \E a \in Requests :
          /\ args' = a
          /\ waits' = IF a.command = <<>> THEN <<>> ELSE <<SuggestedTimeout(a)>>
    /\ UNCHANGED <<serverVars, connVars, execVars, clientVars, frameVars, apiVars, captureVars,
                   unloadVars, lockVars>>

\* CommandHandlers::ExecuteWinDbgCommand after a first run that printed
\* nothing: a command that contains "!process" and a space is followed by
\* ".process /r /p <address>" under timeoutMs, one that contains "!address"
\* and "-f:" by "!address" under timeoutMs / 2
ExecuteWinDbgCommand ==
    /\ args # NoArgs
    /\ args.handler = Legacy
    /\ Len(waits) = 1
    /\ IF Find(args.command, <<"!", "p", "r", "o", "c", "e", "s", "s">>) # {}
       THEN /\ Find(args.command, <<" ">>) # {}
            /\ waits' = Append(waits, waits[1])
       ELSE /\ Find(args.command, <<"!", "a", "d", "d", "r", "e", "s", "s">>) # {}
            /\ Find(args.command, <<"-", "f", ":">>) # {}
            /\ waits' = Append(waits, waits[1] \div 2)
    /\ UNCHANGED <<serverVars, connVars, execVars, clientVars, frameVars, apiVars, captureVars,
                   unloadVars, lockVars, args>>

\* HandleProcessCommand, HandleDllsCommand and HandleAddressCommand, of
\* either class, after a run whose output they reject: an alternate command
\* is run under the same timeout, up to two of them. The handler routes a
\* command to them by its prefix.
HandleAlternate ==
    /\ args # NoArgs
    /\ Len(waits) \in 1..2
    /\ \E p \in {<<"!", "p", "r", "o", "c", "e", "s", "s">>, <<"!", "d", "l", "l", "s">>, <<"!", "a", "d", "d", "r", "e", "s", "s">>} :
          0 \in Find(args.command, p)
    /\ waits' = Append(waits, waits[1])
    /\ UNCHANGED <<serverVars, connVars, execVars, clientVars, frameVars, apiVars, captureVars,
                   unloadVars, lockVars, args>>

TimeoutNext ==
    \/ ExecuteCommandHandler
    \/ ExecuteWinDbgCommand
    \/ HandleAlternate

TimeoutSpec == Init /\ [][TimeoutNext]_vars

\* ------------------------------------------------- the server's two mutexes
\* The same server seen lock by lock. The threads are "api" (the caller of
\* SendMessage or BroadcastMessage), "accept" (PipeServerThread), "stop" (the
\* caller of Stop) and, for each queueMutex, "connection" (the thread of the
\* connection it belongs to).

\* One connection accepted and its thread at the head of its loop, a second
\* client not yet connected
LockInit ==
    /\ m_running = TRUE
    /\ m_handlers = LegacyRegisterHandlers(NoHandlers)
    /\ m_clients = <<1>>
    /\ serverThread = "accepting"
    /\ stopper = "idle"
    /\ active = [c \in Conns |-> c = 1]
    /\ pc = [c \in Conns |-> IF c = 1 THEN "q_test" ELSE "none"]
    /\ messageBuffer = [c \in Conns |-> <<>>]
    /\ cur = [c \in Conns |-> NoMessage]
    /\ response = [c \in Conns |-> NoMessage]
    /\ nread = [c \in Conns |-> 0]
    /\ worker = [c \in Conns |-> "none"]
    /\ timedOut = [c \in Conns |-> FALSE]
    /\ threw = [c \in Conns |-> FALSE]
    /\ zombies = 0
    /\ crashed = FALSE
    /\ peer = [c \in Conns |-> "open"]
    /\ pipeIn = [c \in Conns |-> <<>>]
    /\ nwritten = [c \in Conns |-> 0]
    /\ nsent = [c \in Conns |-> 0]
    /\ outgoingMessages = [c \in Conns |-> <<>>]
    /\ lastCall = StartCalled(FALSE)
    /\ atStop = {}
    /\ CaptureIdle
    /\ UnloadIdle
    /\ TimeoutIdle
    /\ LockIdle
    /\ FrameIdle

\* Faulty variant of BroadcastStep: the message is pushed without the
\* connection's queueMutex
BroadcastStepUnlocked ==
    /\ \/ /\ sender.at = "idle"
          /\ m_running
          /\ \A c \in Conns : Len(outgoingMessages[c]) < MaxQueue
          /\ sender' = [at |-> "lock"]
          /\ UNCHANGED <<m_clientsMutex, queueMutex, outgoingMessages>>
       \/ /\ sender.at = "lock"
          /\ m_clientsMutex = "free"
          /\ m_clientsMutex' = "api"
          /\ sender' = [at |-> "loop", i |-> 1]
          /\ UNCHANGED <<queueMutex, outgoingMessages>>
       \/ /\ sender.at = "loop"
          /\ sender.i <= Len(m_clients)
          /\ sender' = [sender EXCEPT !.at = "push"]
          /\ UNCHANGED <<m_clientsMutex, queueMutex, outgoingMessages>>
       \/ /\ sender.at = "push"
          /\ outgoingMessages' = [outgoingMessages EXCEPT ![m_clients[sender.i]] = Append(@, Event)]
          /\ sender' = [at |-> "loop", i |-> sender.i + 1]
          /\ UNCHANGED <<m_clientsMutex, queueMutex>>
       \/ /\ sender.at = "loop"
          /\ sender.i > Len(m_clients)
          /\ m_clientsMutex' = "free"
          /\ sender' = [at |-> "idle"]
          /\ UNCHANGED <<queueMutex, outgoingMessages>>
    /\ UNCHANGED <<serverVars, connVars, execVars, clientVars, frameVars, lastCall, atStop,
                   captureVars, unloadVars, timeoutVars>>

\* BroadcastMessage (SendMessage is the same with one connection picked by
\* its handle): the test of m_running; lock_guard(m_clientsMutex); for each
\* connection lock_guard(queueMutex), push, notify_one, unlock; unlock of
\* m_clientsMutex at the return
BroadcastStep ==
    /\ \/ /\ sender.at = "idle"
          /\ m_running
          /\ \A c \in Conns : Len(outgoingMessages[c]) < MaxQueue
          /\ sender' = [at |-> "lock"]
          /\ UNCHANGED <<m_clientsMutex, queueMutex, outgoingMessages>>
       \/ /\ sender.at = "lock"
          /\ m_clientsMutex = "free"
          /\ m_clientsMutex' = "api"
          /\ sender' = [at |-> "loop", i |-> 1]
          /\ UNCHANGED <<queueMutex, outgoingMessages>>
       \/ /\ sender.at = "loop"
          /\ sender.i <= Len(m_clients)
          /\ queueMutex[m_clients[sender.i]] = "free"
          /\ queueMutex' = [queueMutex EXCEPT ![m_clients[sender.i]] = "api"]
          /\ sender' = [sender EXCEPT !.at = "push"]
          /\ UNCHANGED <<m_clientsMutex, outgoingMessages>>
       \/ /\ sender.at = "push"
          /\ outgoingMessages' = [outgoingMessages EXCEPT ![m_clients[sender.i]] = Append(@, Event)]
          /\ queueMutex' = [queueMutex EXCEPT ![m_clients[sender.i]] = "free"]
          /\ sender' = [at |-> "loop", i |-> sender.i + 1]
          /\ UNCHANGED m_clientsMutex
       \/ /\ sender.at = "loop"
          /\ sender.i > Len(m_clients)
          /\ m_clientsMutex' = "free"
          /\ sender' = [at |-> "idle"]
          /\ UNCHANGED <<queueMutex, outgoingMessages>>
    /\ UNCHANGED <<serverVars, connVars, execVars, clientVars, frameVars, lastCall, atStop,
                   captureVars, unloadVars, timeoutVars>>

\* HandleClient, one step for each point where it takes or gives up
\* queueMutex: the test of the loop; unique_lock(queueMutex); wait_for, which
\* gives the mutex up while it waits and returns holding it; the pop of the
\* front message and the unlock; the writes and reads outside the lock, a
\* failure of which clears active and returns
HandleClientStep(c) ==
    /\ \/ /\ pc[c] = "q_test"
          /\ pc' = [pc EXCEPT ![c] = IF m_running /\ active[c] THEN "q_lock" ELSE "done"]
          /\ UNCHANGED <<queueMutex, outgoingMessages, active>>
       \/ /\ pc[c] \in {"q_lock", "q_sleep"}
          /\ queueMutex[c] = "free"
          /\ queueMutex' = [queueMutex EXCEPT ![c] = "connection"]
          /\ pc' = [pc EXCEPT ![c] = IF pc[c] = "q_lock" THEN "q_wait" ELSE "q_held"]
          /\ UNCHANGED <<outgoingMessages, active>>
       \/ /\ pc[c] = "q_wait"
          /\ IF outgoingMessages[c] # <<>> \/ ~active[c]
             THEN /\ pc' = [pc EXCEPT ![c] = "q_held"]
                  /\ UNCHANGED queueMutex
             ELSE /\ pc' = [pc EXCEPT ![c] = "q_sleep"]
                  /\ queueMutex' = [queueMutex EXCEPT ![c] = "free"]
          /\ UNCHANGED <<outgoingMessages, active>>
       \/ /\ pc[c] = "q_held"
          /\ outgoingMessages' = [outgoingMessages EXCEPT ![c] = IF @ = <<>> THEN @ ELSE Tail(@)]
          /\ queueMutex' = [queueMutex EXCEPT ![c] = "free"]
          /\ pc' = [pc EXCEPT ![c] = "io"]
          /\ UNCHANGED active
       \/ /\ pc[c] = "io"
          /\ \E success \in BOOLEAN :
                /\ pc' = [pc EXCEPT ![c] = IF success THEN "q_test" ELSE "done"]
                /\ active' = [active EXCEPT ![c] = @ /\ success]
          /\ UNCHANGED <<queueMutex, outgoingMessages>>
    /\ UNCHANGED <<serverVars, messageBuffer, cur, response, nread, execVars, clientVars,
                   frameVars, lastCall, atStop, captureVars, unloadVars, timeoutVars,
                   m_clientsMutex, sender>>

\* PipeServerThread: a client connects and its thread is started; the
\* push_back under m_clientsMutex; CleanupDisconnectedClients, which takes
\* m_clientsMutex, joins the thread of every connection that is not active
\* and erases it, and gives the mutex up at its return; once m_running is
\* false, the last CleanupDisconnectedClients and the end of the thread
AcceptStep ==
    /\ \/ /\ serverThread = "accepting"
          /\ IF m_running
             THEN \E c \in Conns :
                     /\ pc[c] = "none"
                     /\ pc' = [pc EXCEPT ![c] = "q_test"]
                     /\ active' = [active EXCEPT ![c] = TRUE]
                     /\ serverThread' = "push_back"
             ELSE /\ serverThread' = "last_cleanup"
                  /\ UNCHANGED <<pc, active>>
          /\ UNCHANGED <<m_clients, m_clientsMutex, peer, pipeIn, outgoingMessages>>
       \/ /\ serverThread = "push_back"
          /\ m_clientsMutex = "free"
          /\ \E c \in Conns :
                /\ pc[c] # "none" /\ ~Member(c)
                /\ m_clients' = Append(m_clients, c)
          /\ serverThread' = "cleanup"
          /\ UNCHANGED <<pc, active, m_clientsMutex, peer, pipeIn, outgoingMessages>>
       \/ /\ serverThread \in {"cleanup", "last_cleanup"}
          /\ m_clientsMutex = "free"
          /\ m_clientsMutex' = "accept"
          /\ serverThread' = IF serverThread = "cleanup" THEN "cleanup_locked" ELSE "last_locked"
          /\ UNCHANGED <<m_clients, pc, active, peer, pipeIn, outgoingMessages>>
       \/ /\ serverThread \in {"cleanup_locked", "last_locked"}
          /\ CanJoinInactive
          /\ m_clients' = EraseInactive(m_clients)
          /\ peer' = ClosedByServer(m_clients)
          /\ outgoingMessages' = QueuesAfterErase(m_clients)
          /\ pipeIn' = DiscardedByServer(m_clients)
          /\ m_clientsMutex' = "free"
          /\ serverThread' = IF serverThread = "cleanup_locked" THEN "accepting" ELSE "exited"
          /\ UNCHANGED <<pc, active>>
    /\ UNCHANGED <<m_running, m_handlers, stopper, messageBuffer, cur, response, nread, execVars,
                   nwritten, nsent, frameVars, lastCall, atStop, captureVars, unloadVars,
                   timeoutVars, queueMutex, sender>>

\* MCPServer::Stop on a running server: m_running = false; under
\* m_clientsMutex, notify_all and active = false for every connection; the
\* join of the accept thread; CleanupDisconnectedClients
StopStep ==
    /\ \/ /\ stopper = "idle"
          /\ m_running
          /\ m_running' = FALSE
          /\ stopper' = "lock"
          /\ UNCHANGED <<m_clients, active, m_clientsMutex, peer, pipeIn, outgoingMessages>>
       \/ /\ stopper \in {"lock", "cleanup"}
          /\ m_clientsMutex = "free"
          /\ m_clientsMutex' = "stop"
          /\ stopper' = IF stopper = "lock" THEN "locked" ELSE "cleanup_locked"
          /\ UNCHANGED <<m_running, m_clients, active, peer, pipeIn, outgoingMessages>>
       \/ /\ stopper = "locked"
          /\ active' = [c \in Conns |-> IF Member(c) THEN FALSE ELSE active[c]]
          /\ m_clientsMutex' = "free"
          /\ stopper' = "join_server"
          /\ UNCHANGED <<m_running, m_clients, peer, pipeIn, outgoingMessages>>
       \/ /\ stopper = "join_server"
          /\ serverThread = "exited"
          /\ stopper' = "cleanup"
          /\ UNCHANGED <<m_running, m_clients, active, m_clientsMutex, peer, pipeIn,
                         outgoingMessages>>
       \/ /\ stopper = "cleanup_locked"
          /\ CanJoinInactive
          /\ m_clients' = EraseInactive(m_clients)
          /\ peer' = ClosedByServer(m_clients)
          /\ outgoingMessages' = QueuesAfterErase(m_clients)
          /\ pipeIn' = DiscardedByServer(m_clients)
          /\ m_clientsMutex' = "free"
          /\ stopper' = "returned"
          /\ UNCHANGED <<m_running, active>>
    /\ UNCHANGED <<m_handlers, serverThread, pc, messageBuffer, cur, response, nread, execVars,
                   nwritten, nsent, frameVars, lastCall, atStop, captureVars, unloadVars,
                   timeoutVars, queueMutex, sender>>

LockNext ==
    \/ BroadcastStep
    \/ \E c \in Conns : HandleClientStep(c)
    \/ AcceptStep
    \/ StopStep

LockSpec == LockInit /\ [][LockNext]_vars

\* ============================================================== properties
\* The category a response carries, under either key the handlers use
CategoryOf(r) == Value(r, "error_category", Value(r, "category", "none"))

\* 1 while connection c holds an extracted message it has not answered yet
Unanswered(c) == IF pc[c] \in {"exec_wait", "exec_grace", "write", "catch"} THEN 1 ELSE 0

\* C1: whenever ProcessMessage has produced the response to a message of type
\* "command" (the handler returned, the command is unknown, or the handler
\* threw), the response carries the request's id and the request's command.
C1_EchoesIdAndCommand ==
    \A c \in Conns :
        (pc[c] = "write" /\ Value(cur[c], "type", "") = "command") =>
            /\ Has(response[c], "id")
            /\ response[c].id = Value(cur[c], "id", 0)
            /\ Has(response[c], "command")
            /\ response[c].command = Value(cur[c], "command", "")

Delimiters(s) == {i \in 1..Len(s) : s[i] = NL}

KthDelimiter(s, k) ==
    IF k = 0 THEN 0
    ELSE CHOOSE i \in Delimiters(s) : Cardinality({d \in Delimiters(s) : d <= i}) = k

\* C4: whatever the byte stream and however it is split into reads, the
\* messages extracted so far are exactly the newline-terminated pieces of the
\* bytes delivered so far, in order, each once, and the buffer holds exactly
\* the bytes after the last delimiter delivered.
C4_FramingExact ==
    LET delivered == SubSeq(fStream, 1, fDelivered)
        n == Cardinality(Delimiters(delivered)) IN
    /\ Len(fMessages) = n
    /\ \A k \in 1..n :
          fMessages[k] = SubSeq(delivered, KthDelimiter(delivered, k - 1) + 1,
                                KthDelimiter(delivered, k) - 1)
    /\ fBuffer = SubSeq(delivered, KthDelimiter(delivered, n) + 1, Len(delivered))

\* Two messages extracted over more than one read, with an unterminated tail kept
C4_Witness ==
    /\ Len(fMessages) = 2 /\ fMessages[1] # <<>>
    /\ fBuffer # <<>>
    /\ fDelivered = Len(fStream)

\* C5: when the wait for a native command timed out, the response of the
\* handler is an error response classified as a timeout.
C5_TimeoutClassified ==
    \A c \in Conns :
        (pc[c] = "write" /\ timedOut[c]) =>
            /\ Value(response[c], "status", "") = "error"
            /\ CategoryOf(response[c]) \in {"Timeout", "timeout"}

\* C6: a call of ExecuteWithTimeout always returns, and its caller then holds
\* the response to write.
C6_ExecuteReturns ==
    \A c \in Conns : (pc[c] = "exec_wait") ~> (pc[c] = "write")

\* C7: once a command has timed out, its execution thread has been detached
\* and its response has been written, the commands the client sent after it
\* on the same connection are read, dispatched and answered.
C7_AnsweredAfterDetach ==
    (zombies > 0 /\ pc[1] = "loop" /\ nsent[1] = MaxReq /\ nwritten[1] < MaxReq)
        ~> (nwritten[1] = MaxReq)

\* C8: a command whose name is not registered (an empty or missing name
\* included) is answered with an error response of error code
\* invalid_command, and no handler runs for it.
C8_UnknownCommandRejected ==
    \A c \in Conns :
        (/\ Value(cur[c], "type", "") = "command"
         /\ Value(cur[c], "command", "") \notin DOMAIN m_handlers) =>
            /\ pc[c] = "write"
            /\ worker[c] = "none" /\ ~threw[c] /\ ~timedOut[c]
            /\ Value(response[c], "type", "") = "error"
            /\ Value(response[c], "error_code", "") = "invalid_command"
            /\ ~Has(response[c], "status")

\* A command without a name, rejected
C8_Witness ==
    /\ pc[1] = "write"
    /\ Value(cur[1], "type", "") = "command" /\ ~Has(cur[1], "command")
    /\ Value(response[1], "error_code", "") = "invalid_command"

\* C9: when a handler throws, the response is an error response of error code
\* command_failed with the request's id; the connection stays active and its
\* thread goes on to write the response and return to its loop.
C9_HandlerThrowContained ==
    [][\A c \in Conns : threw[c] =>
          /\ pc[c] = "write" /\ active[c]
          /\ Value(response[c], "type", "") = "error"
          /\ Value(response[c], "error_code", "") = "command_failed"
          /\ Value(response[c], "id", -1) = Value(cur[c], "id", 0)
          /\ active'[c]
          /\ pc'[c] \in {"write", "loop"}
          /\ nwritten'[c] >= nwritten[c]]_vars

\* A handler threw while a later request waits in the pipe
C9_Witness == threw[1] /\ pc[1] = "write" /\ pipeIn[1] # <<>>

\* C10: a line that does not parse is answered at once with an error response
\* of error code invalid_message on its own connection; the connection stays
\* active, and the thread returns to the messages left in its buffer, which
\* it has not touched.
C10_ParseErrorContained ==
    [][\A c \in Conns : pc[c] = "catch" =>
          /\ cur[c] = Junk /\ active[c]
          /\ Value(response[c], "type", "") = "error"
          /\ Value(response[c], "error_code", "") = "invalid_message"
          /\ pc'[c] # "catch" =>
                /\ pc'[c] = "loop" /\ active'[c]
                /\ nwritten'[c] = nwritten[c] + 1
                /\ messageBuffer'[c] = messageBuffer[c]]_vars

\* A line that does not parse, with a complete message behind it in the buffer
C10_Witness == pc[1] = "catch" /\ FindNewline(messageBuffer[1]) # 0

\* C11: when a read, a peek or a write fails on a connection of the running
\* server and its thread gives the connection up, the step clears that
\* connection's active flag and changes nothing else: not m_running, not the
\* accept loop, not m_clients, not the active flag, the queue or the thread
\* of any other connection.
C11_FailureEndsOnlyThatConnection ==
    [][\A c \in Conns :
          (m_running /\ active[c] /\ pc[c] # "done" /\ pc'[c] = "done") =>
              /\ ~active'[c]
              /\ m_running' = m_running
              /\ serverThread' = serverThread
              /\ m_clients' = m_clients
              /\ \A d \in Conns \ {c} :
                    /\ active'[d] = active[d]
                    /\ outgoingMessages'[d] = outgoingMessages[d]
                    /\ pc'[d] = pc[d]]_vars

\* A connection ended by a failure while the other one is served and has a
\* message queued
C11_Witness ==
    /\ pc[1] = "done" /\ ~active[1] /\ m_running
    /\ active[2] /\ pc[2] = "exec_wait" /\ outgoingMessages[2] # <<>>

\* C12: a Start that finds the server running reports failure to its caller.
C12_SecondStartFails ==
    (lastCall.op = "Start" /\ lastCall.running) => lastCall.ret = FALSE

\* C13: when Stop has returned, every connection that was active in m_clients
\* when Stop was called has its thread ended and joined, is erased from
\* m_clients, and is destroyed.
C13_StopJoinsAll ==
    stopper = "returned" =>
        \A c \in atStop : pc[c] = "done" /\ ~active[c] /\ ~Member(c) /\ peer[c] = "gone"

\* Stop has returned after it was called with two active connections, one of
\* them with a request read
C13_Witness ==
    /\ stopper = "returned"
    /\ atStop = {1, 2}
    /\ nread[1] + nread[2] >= 1

\* C14: a Stop that has cleared m_running eventually returns, whether or not
\* another client connects.
C14_StopReturns == (stopper = "join_server") ~> (stopper = "returned")

\* C15: a Stop on a server that is not running (never started, or stopped
\* before) changes nothing of the server, its connections or its threads, and
\* the server stays stopped.
C15_StopIdempotent ==
    [][(lastCall' = StopCalled(FALSE) /\ lastCall # StopCalled(FALSE)) =>
          /\ ~m_running /\ ~m_running'
          /\ UNCHANGED <<serverVars, connVars, execVars, clientVars, outgoingMessages,
                         atStop>>]_vars

\* A second Stop after a Stop that had connections to join has returned
C15_Witness ==
    /\ lastCall = StopCalled(FALSE)
    /\ stopper = "returned"
    /\ atStop # {}

\* C16: RegisterHandler never replaces the handler of a registered name.
C16_DuplicateRejected ==
    [][\A n \in DOMAIN m_handlers :
          n \in DOMAIN m_handlers' /\ m_handlers'[n] = m_handlers[n]]_vars

\* C17: the thread that has produced a response writes it next, before it
\* looks at the queue again; so a response does not overtake a queued message
\* exactly when no message is waiting in the connection's queue at the moment
\* the response is produced.
C17_ResponseAfterQueued ==
    [][\A c \in Conns :
          (pc[c] \notin {"write", "catch"} /\ pc'[c] \in {"write", "catch"}) =>
              outgoingMessages[c] = <<>>]_vars

C19_DrainedDuringCommand ==
    \A c \in Conns :
        (/\ pc[c] \in {"exec_wait", "exec_grace"}
         /\ outgoingMessages[c] # <<>>
         /\ m_running /\ active[c]) => ENABLED SendQueued(c)

\* C20: a connection whose client has disconnected is eventually reaped, with
\* no further client connecting.
C20_DisconnectedReaped ==
    \A c \in Conns : (peer[c] = "closed") ~> (peer[c] = "gone")

\* C21: no read ends the connection: a message longer than one read buffer
\* is taken in parts and its bytes reach messageBuffer.
C21_LargeRequestReassembled == fOpen

\* C22: what an execution's capture object holds, and what its call returns,
\* is text printed by its own native call only, whatever else is in flight.
C22_OwnOutputOnly ==
    \A c \in Conns :
        /\ callbacks[c].m_output \subseteq {c}
        /\ result[c] # NoResult => result[c].captured \subseteq {c}

\* C23: a call of CommandUtilities' executor whose first wait timed out and
\* whose thread finished before the call returned returns a result marked
\* timed out, ending in the " (interrupted)" marker and carrying the output
\* captured so far.
C23_InterruptedKeepsOutput ==
    \A c \in Conns :
        (/\ ~LegacyCall(c)
         /\ pc[c] = "exec_returned" /\ timedOut[c] /\ worker[c] = "none") =>
            /\ result[c].hasTimedOut
            /\ result[c].text # <<>>
            /\ result[c].text[Len(result[c].text)] = " (interrupted)"
            /\ callbacks[c].m_output \subseteq result[c].captured

\* C24: a call that returns the failure of setting the native call up
\* (no debug client, no callbacks) has started no thread.
C24_SetupFailureSpawnsNothing ==
    \A c \in Conns :
        (/\ pc[c] = "exec_returned"
         /\ result[c].text \in {<<"Failed to create debug client">>,
                                <<"Failed to set output callbacks">>}) => ~spawned[c]

\* C30: once a call has returned, its thread has finished and its client no
\* longer has the callbacks set, the capture object it created is destroyed.
C30_CaptureReleased ==
    \A c \in Conns :
        (/\ pc[c] = "exec_returned"
         /\ worker[c] \notin {"setup", "running"}
         /\ ~clientCallbacks[c]
         /\ callbacks[c].state # "none") => callbacks[c].state = "deleted"

\* C25: at no time are two native executions in flight, whether they were
\* started from two connections or one of them belongs to an execution
\* thread left running after a timeout.
C25_NativeSerialized ==
    Cardinality({c \in Conns : worker[c] = "running"}) + zombies <= 1

\* C27: when the write of the error response for a message that did not
\* parse fails, the connection is made inactive and its thread ends: it
\* reads, dispatches and writes nothing more.
C27_FailedErrorWriteFatal ==
    [][\A c \in Conns :
          (pc[c] = "catch" /\ ~CanWrite(c) /\ pc'[c] # "catch") =>
              (~active'[c] /\ pc'[c] = "done")]_vars

\* C26: BroadcastMessage returns true exactly when it queued the message for
\* at least one client: the server was running and m_clients was not empty.
C26_BroadcastTrueIffQueued ==
    lastCall.op = "BroadcastMessage" =>
        (lastCall.ret <=> (lastCall.running /\ lastCall.clients # {}))

\* C28: the accept loop leaves its body for the final cleanup only when
\* m_running is false; while the server runs, a failure to create or connect
\* a pipe instance leaves it accepting; the cleanup after an accept never
\* waits for a command in flight; and an accept adds exactly one entry to
\* m_clients, for a peer that had none, and starts that peer's one thread.
C28_AcceptLoop ==
    [][/\ (serverThread \in {"accepting", "cleanup"}
           /\ serverThread' \notin {"accepting", "cleanup"}) => ~m_running
       /\ (m_running /\ serverThread = "accepting" /\ serverThread' # "accepting") =>
              \E c \in Conns : peer[c] = "none" /\ peer'[c] = "open"
       /\ (m_running /\ serverThread = "cleanup") => CanJoinInactive
       /\ \A c \in Conns :
             (peer[c] = "none" /\ peer'[c] = "open") =>
                 /\ ~Member(c)
                 /\ m_clients' = Append(m_clients, c)
                 /\ pc[c] \in {"none", "done"}
                 /\ pc'[c] = "loop"]_vars

\* A second connection has been accepted, and waits for input, while the
\* command of the first is in flight and the loop accepts again
C28_Witness ==
    /\ m_running
    /\ serverThread = "accepting"
    /\ m_clients = <<1, 2>>
    /\ worker[1] = "running"
    /\ pc[2] = "loop"
    /\ nread[2] = 0

\* C29: whatever the order of DebugExtensionInitialize, mcpstart, mcpstop
\* and DebugExtensionUninitialize, the handler table changes only on a server
\* object that has never been started (it is filled once, before the first
\* Start) or when the stopped server is destroyed: never while it runs and
\* never between a Stop and a restart.
C29_HandlersBeforeStart ==
    [][m_handlers' # m_handlers =>
          \/ m_handlers = NoHandlers /\ ~m_running /\ serverThread = "none"
          \/ m_handlers' = NoHandlers /\ ~m_running]_vars

\* The server was stopped by mcpstop and started again by mcpstart, with the
\* table DebugExtensionInitialize registered
C29_Witness ==
    /\ m_running
    /\ stopper = "returned"
    /\ lastCall = StartCalled(FALSE)
    /\ m_handlers = LegacyRegisterHandlers(NoHandlers)

\* C31: after the timeout the call gives up on a thread that is still running
\* only when the grace period has run out: the second wait ends early only
\* for a thread that has finished.
C31_GraceWaitedInFull ==
    [][\A c \in Conns :
          (/\ pc[c] \in {"exec_grace", "exec_grace_over"}
           /\ pc'[c] = "exec_returned"
           /\ worker[c] \in {"setup", "running"}) => pc[c] = "exec_grace_over"]_vars

\* C33: CommandUtilities' call returns with its execution thread joined when
\* the thread had delivered, in time or within the second wait, and detached
\* only when the thread was still running at the end of the second wait; a
\* call that started no thread has none to dispose of.
C33_JoinedOrDetachedOnce ==
    [][\A c \in Conns :
          (~LegacyCall(c) /\ pc[c] # "exec_returned" /\ pc'[c] = "exec_returned") =>
              IF worker[c] \in {"ok", "failed"}
              THEN worker'[c] = "none"
              ELSE /\ worker[c] \in {"setup", "running"}
                   /\ worker'[c] = worker[c]
                   /\ pc[c] = "exec_grace_over"]_vars

\* A call of CommandUtilities has returned after a timeout with its thread
\* joined, and another with its thread detached
C33_Witness ==
    /\ ~LegacyCall(1)
    /\ pc = [c \in Conns |-> "exec_returned"]
    /\ timedOut[1] /\ worker[1] = "none"
    /\ timedOut[2] /\ worker[2] = "running"

\* C34: the completion of an execution thread whose call has returned does
\* no harm: it touches nothing of the frame that is gone, so the process
\* lives on.
C34_LateCompletionHarmless == ~crashed

\* C35: a call whose first wait timed out returns a result marked timed out
\* that carries the timeout message, whatever its thread did afterwards.
C35_TimedOutResultKept ==
    \A c \in Conns :
        (pc[c] = "exec_returned" /\ timedOut[c]) =>
            /\ result[c].hasTimedOut
            /\ result[c].text # <<>>
            /\ result[c].text[1] \in {"Command timed out",
                                      "Command execution timed out after"}

\* C32: a connection leaves m_clients, whether by a cleanup, by Stop or by
\* the destruction of the server, only when its active flag is false and its
\* thread has returned.
C32_ErasedAfterJoin ==
    [][\A c \in Conns :
          (Member(c) /\ ~(\E i \in 1..Len(m_clients') : m_clients'[i] = c)) =>
              (~active[c] /\ pc[c] = "done")]_vars

\* C36: once Stop has returned, and until the server is started again,
\* m_clients is empty and no connection thread is left running, also when a
\* client connected while Stop was waiting for the accept thread.
C36_StopLeavesNoConnection ==
    (stopper = "returned" /\ ~m_running) =>
        /\ m_clients = <<>>
        /\ \A c \in Conns : pc[c] \in {"none", "done"}

\* C37: with shutdown asked for from two threads, at most one of them is
\* ever waiting in the join of the accept thread, and a thread that is inside
\* Stop has a server object to work on.
C37_TeardownOnce ==
    /\ ~(stopper = "join_server" /\ cleaner = "join")
    /\ (stopper \in {"join_server", "cleanup"} \/ cleaner \in {"stop_set", "join", "cleanup"})
           => m_handlers # NoHandlers

\* C38: a command that execute_command runs is run under the larger of the
\* timeout_ms the client sent (30000 ms when it sent none) and the timeout of
\* the command's category, and no run made for the request waits less than
\* the category's timeout.
C38_TimeoutIsMaximum ==
    (args # NoArgs /\ waits # <<>>) =>
        LET requested == Value(args, "timeout_ms", Ms(30000))
            category == GetTimeoutForCategory(CategorizeCommand(args.command))
        IN  /\ waits[1] = IF requested < category THEN category ELSE requested
            /\ \A i \in 1..Len(waits) : waits[i] >= category

\* C39: when the execution thread of a CommandUtilities call has ended, by
\* whichever path, the call's promise holds the value the thread set, and a
\* value once set is not set again.
C39_PromiseSetOnce ==
    /\ [](\A c \in Conns :
             (~LegacyCall(c) /\ worker[c] \in {"ok", "failed"}) => promise[c] # NoResult)
    /\ [][\A c \in Conns : promise[c] # NoResult => promise'[c] = promise[c]]_vars

\* C40: the server's threads cannot block each other for good on
\* m_clientsMutex and queueMutex. A connection thread never holds
\* m_clientsMutex and the threads that join connection threads never hold a
\* queueMutex; a thread that waits in the join of a connection thread leaves
\* that thread able to take its next step; m_clientsMutex is only taken by a
\* thread that holds no queueMutex, so a thread that holds both took
\* m_clientsMutex first; and the queue of a connection in m_clients changes
\* only while its queueMutex is held.
C40_NoLockDeadlock ==
    /\ [](/\ m_clientsMutex \in {"free", "api", "accept", "stop"}
          /\ \A c \in Conns : queueMutex[c] \in {"free", "api", "connection"}
          /\ \A c \in Conns :
                (/\ Member(c) /\ ~active[c] /\ pc[c] # "done"
                 /\ \/ serverThread \in {"cleanup_locked", "last_locked"}
                    \/ stopper = "cleanup_locked") => ENABLED HandleClientStep(c))
    /\ [][/\ (m_clientsMutex = "free" /\ m_clientsMutex' # "free") =>
                 \A c \in Conns : queueMutex[c] # m_clientsMutex'
          /\ \A c \in Conns :
                (/\ outgoingMessages'[c] # outgoingMessages[c]
                 /\ Member(c)
                 /\ \E i \in 1..Len(m_clients') : m_clients'[i] = c) =>
                    queueMutex[c] # "free"]_vars

\* The accept thread, holding m_clientsMutex, waits in the join of a
\* connection thread that Stop has deactivated and that still has to take its
\* queueMutex to leave its wait, while the caller of BroadcastMessage waits
\* for m_clientsMutex
C40_Witness ==
    /\ serverThread \in {"cleanup_locked", "last_locked"}
    /\ m_clientsMutex = "accept"
    /\ sender.at = "lock"
    /\ \E c \in Conns : Member(c) /\ ~active[c] /\ pc[c] = "q_sleep"

====
